---- MODULE Spec2Model ----
(***************************************************************************)
(* Model of SkillNormalizer.py: the skill normalisation and grouping       *)
(* pipeline (extract -> create_initial_groups -> consolidate_groups ->     *)
(* filter_and_reclassify_groups -> save_results) and the pure functions it *)
(* is built from (clean_skill_name, should_discard, normalize_skill,       *)
(* should_group_together, determine_primary_category).                     *)
(*                                                                         *)
(* A Python str is modelled as a sequence of one-character strings, so     *)
(* that slicing, searching and replacing are computed character by         *)
(* character as the code computes them.  A Python dict is modelled as a    *)
(* sequence of [k |-> key, v |-> value] records in insertion order.        *)
(***************************************************************************)
EXTENDS Integers, Sequences, FiniteSets, TLC

VARIABLES
    pc,             \* position of main(): "start", "group", "consolidate", ...
    jobs,           \* the parsed input file: a sequence of job records
    skills,         \* list returned by extract_all_skill_names_from_jobs
    idx,            \* number of skills create_initial_groups has processed
    groups,         \* dict built by create_initial_groups
    consolidated,   \* dict returned by consolidate_groups
    final_groups,   \* dict returned by filter_and_reclassify_groups
    output_file,    \* what save_results wrote (the dict in key order)
    summary_file,   \* what save_categories_summary wrote
    augmented_file, \* what save_augmented_jobs_with_skills wrote
    argA, argB,     \* arguments of a direct call of one of the pure functions
    call,           \* which pure function was called ("none" before the call)
    ret             \* the value that call returned

vars == <<pc, jobs, skills, idx, groups, consolidated, final_groups,
          output_file, summary_file, augmented_file, argA, argB, call, ret>>

-----------------------------------------------------------------------------
(* Characters and str primitives                                           *)

\* The characters of the model's alphabet in code-point order (the order
\* Python's sorted() compares str by).
Chars ==
    << " ", "#", "&", "'", "(", ")", "+", ",", "-", ".", "/",
       "0", "1", "2", "3", "4", "5", "6", "7", "8", "9", ":", ";",
       "A", "B", "C", "D", "E", "F", "G", "H", "I", "J", "K", "L", "M",
       "N", "O", "P", "Q", "R", "S", "T", "U", "V", "W", "X", "Y", "Z",
       "[", "\\", "]", "_",
       "a", "b", "c", "d", "e", "f", "g", "h", "i", "j", "k", "l", "m",
       "n", "o", "p", "q", "r", "s", "t", "u", "v", "w", "x", "y", "z" >>

CharSet == { Chars[i] : i \in 1..Len(Chars) }

Ord == [ c \in CharSet |-> CHOOSE i \in 1..Len(Chars) : Chars[i] = c ]

Digits == { "0", "1", "2", "3", "4", "5", "6", "7", "8", "9" }

LowerLetters ==
    { "a", "b", "c", "d", "e", "f", "g", "h", "i", "j", "k", "l", "m",
      "n", "o", "p", "q", "r", "s", "t", "u", "v", "w", "x", "y", "z" }

UpperLetters ==
    { "A", "B", "C", "D", "E", "F", "G", "H", "I", "J", "K", "L", "M",
      "N", "O", "P", "Q", "R", "S", "T", "U", "V", "W", "X", "Y", "Z" }

\* \s of the regular expressions and the whitespace of str.strip/str.split:
\* the space is the only whitespace character of the alphabet.
Whitespace == { " " }

\* \w of the regular expressions: what \b separates from everything else.
WordChars == LowerLetters \cup UpperLetters \cup Digits \cup { "_" }

\* str.lower() on one character: a lower-case letter is as far from its
\* upper-case letter in Chars as "a" is from "A".
LowerOf ==
    [ c \in CharSet |->
        IF c \in UpperLetters THEN Chars[Ord[c] + Ord["a"] - Ord["A"]] ELSE c ]

lower(s) == [ i \in 1..Len(s) |-> LowerOf[s[i]] ]

Max(S) == CHOOSE x \in S : \A y \in S : y <= x

Min(S) == CHOOSE x \in S : \A y \in S : x <= y

\* s[i:] for a 1-based i
From(s, i) == SubSeq(s, i, Len(s))

\* str.startswith at offset i (0-based offset, i.e. s[i:i+len(p)] == p)
MatchAt(s, i, p) ==
    /\ i + Len(p) <= Len(s)
    /\ \A k \in 1..Len(p) : s[i + k] = p[k]

\* p in s
Contains(s, p) == \E i \in 0..(Len(s) - Len(p)) : MatchAt(s, i, p)

\* str.strip()
strip(s) ==
    LET keep == { i \in 1..Len(s) : s[i] \notin Whitespace }
    IN  IF keep = {} THEN << >> ELSE SubSeq(s, Min(keep), Max(keep))

\* len(s.split()): the number of maximal runs of non-whitespace
WordCount(s) ==
    Cardinality({ i \in 1..Len(s) :
                    /\ s[i] \notin Whitespace
                    /\ (i = 1 \/ s[i - 1] \in Whitespace) })

\* str.replace(old, new): left to right, non-overlapping; old is not empty
RECURSIVE str_replace(_, _, _)
str_replace(s, old, new) ==
    IF Len(s) < Len(old) THEN s
    ELSE IF MatchAt(s, 0, old)
         THEN new \o str_replace(From(s, Len(old) + 1), old, new)
         ELSE << s[1] >> \o str_replace(Tail(s), old, new)

\* s[:n]
Prefix(s, n) == SubSeq(s, 1, IF Len(s) < n THEN Len(s) ELSE n)

\* s < t as Python compares str: by code point, a proper prefix first
RECURSIVE StrLess(_, _)
StrLess(s, t) ==
    IF t = << >> THEN FALSE
    ELSE IF s = << >> THEN TRUE
    ELSE IF s[1] = t[1] THEN StrLess(Tail(s), Tail(t))
    ELSE Ord[s[1]] < Ord[t[1]]

\* sorted(set(v)) of a set of str
RECURSIVE SortedSet(_)
SortedSet(S) ==
    IF S = {} THEN << >>
    ELSE LET m == CHOOSE x \in S : \A y \in S \ {x} : StrLess(x, y)
         IN  << m >> \o SortedSet(S \ {m})

Range(f) == { f[i] : i \in DOMAIN f }

-----------------------------------------------------------------------------
(* Regular expressions used by the code                                    *)

\* \b at offset p of s (between s[p] and s[p+1], 1-based characters): one
\* side is a \w character and the other is not (or is outside the string).
IsWordAt(s, i) == i >= 1 /\ i <= Len(s) /\ s[i] \in WordChars

Boundary(s, p) == IsWordAt(s, p) # IsWordAt(s, p + 1)

\* the pattern rf'\b{re.escape(p)}\b' matches s at offset i
WordMatchAt(s, i, p) ==
    MatchAt(s, i, p) /\ Boundary(s, i) /\ Boundary(s, i + Len(p))

\* re.search(rf'\b{re.escape(p)}\b', s) is not None.  For p = "" the pattern
\* is \b\b, which matches at any word boundary of s.
re_search_word(p, s) == \E i \in 0..(Len(s) - Len(p)) : WordMatchAt(s, i, p)

\* re.sub(rf'\b{re.escape(p)}\b', repl, s) for a non-empty p, scanning from
\* offset i: matches are taken left to right and do not overlap.
RECURSIVE re_sub_word_from(_, _, _, _)
re_sub_word_from(s, i, p, repl) ==
    IF i >= Len(s) THEN << >>
    ELSE IF WordMatchAt(s, i, p)
         THEN repl \o re_sub_word_from(s, i + Len(p), p, repl)
         ELSE << s[i + 1] >> \o re_sub_word_from(s, i + 1, p, repl)

re_sub_word(p, repl, s) == re_sub_word_from(s, 0, p, repl)

\* re.sub(r'\([^)]*\)', '', s) with open = "(" and close = ")", and
\* re.sub(r'\[[^\]]*\]', '', s) with "[" and "]": at an opening character
\* the match runs to the first closing character after it, if there is one.
RECURSIVE re_sub_span(_, _, _)
re_sub_span(s, open, close) ==
    IF s = << >> THEN s
    ELSE LET ends == { j \in 2..Len(s) : s[j] = close }
         IN  IF s[1] = open /\ ends # {}
             THEN re_sub_span(From(s, Min(ends) + 1), open, close)
             ELSE << s[1] >> \o re_sub_span(Tail(s), open, close)

\* re.sub(r'^<prefix>\s*', '', s)
re_sub_prefix(s, prefix) ==
    IF ~MatchAt(s, 0, prefix) THEN s
    ELSE LET rest == From(s, Len(prefix) + 1)
             keep == { i \in 1..Len(rest) : rest[i] \notin Whitespace }
         IN  IF keep = {} THEN << >> ELSE From(rest, Min(keep))

\* re.sub(r'[.,;:]$', '', s): one punctuation character at the very end
re_sub_trailing_punct(s) ==
    IF s # << >> /\ s[Len(s)] \in { ".", ",", ";", ":" }
    THEN SubSeq(s, 1, Len(s) - 1)
    ELSE s

\* re.sub(r"[^a-z0-9\s]+", "", s)
IsKept(c) == c \in LowerLetters \cup Digits \cup Whitespace

re_sub_non_alnum(s) == SelectSeq(s, IsKept)

\* re.sub(r'\s+', ' ', s)
RECURSIVE re_sub_spaces(_)
re_sub_spaces(s) ==
    IF s = << >> THEN s
    ELSE IF s[1] \in Whitespace
         THEN IF Len(s) > 1 /\ s[2] \in Whitespace
              THEN re_sub_spaces(Tail(s))
              ELSE << " " >> \o re_sub_spaces(Tail(s))
         ELSE << s[1] >> \o re_sub_spaces(Tail(s))

\* re.search(r"\d+\+?\s*years?", s, re.IGNORECASE) is not None: a digit,
\* an optional "+", any whitespace, then "year" in any case.
ExperienceAfter(s, i) ==
    LET j == IF i + 1 <= Len(s) /\ s[i + 1] = "+" THEN i + 1 ELSE i
        stops == { k \in (j + 1)..Len(s) : s[k] \notin Whitespace }
    IN  \/ MatchAt(lower(s), j, << "y", "e", "a", "r" >>)
        \/ (stops # {} /\ MatchAt(lower(s), Min(stops) - 1, << "y", "e", "a", "r" >>))

re_search_experience(s) ==
    \E i \in 1..Len(s) : s[i] \in Digits /\ ExperienceAfter(s, i)

\* None: what dict.get() returns when it finds nothing and what a function
\* that returns a str gives when it has none.  "if name:" treats it as "".
None == << >>

-----------------------------------------------------------------------------
(* dict primitives                                                         *)

Keys(d) == { d[i].k : i \in 1..Len(d) }

IndexOf(d, key) == CHOOSE i \in 1..Len(d) : d[i].k = key

\* d[key]
Get(d, key) == d[IndexOf(d, key)].v

\* d[key] = value: an existing key keeps its place, a new key goes last
DictSet(d, key, value) ==
    IF key \in Keys(d)
    THEN [ d EXCEPT ![IndexOf(d, key)].v = value ]
    ELSE Append(d, [ k |-> key, v |-> value ])

\* d.update(e): the keys of d keep their places and take e's values, the
\* new keys of e follow in e's order
DictUpdate(d, e) ==
    [ i \in 1..Len(d) |->
        IF d[i].k \in Keys(e) THEN [ k |-> d[i].k, v |-> Get(e, d[i].k) ] ELSE d[i] ]
    \o SelectSeq(e, LAMBDA item : item.k \notin Keys(d))

\* SortedValues without sorted(set(...)): the lists as they were built
SortedValuesAsBuilt(d) == d

\* {k: sorted(set(v)) for k, v in d.items()}
SortedValues(d) ==
    [ i \in 1..Len(d) |-> [ k |-> d[i].k, v |-> SortedSet(Range(d[i].v)) ] ]

\* the dict as a mapping, whatever the order of its keys
AsMapping(d) == { << d[i].k, d[i].v >> : i \in 1..Len(d) }

-----------------------------------------------------------------------------
(* The taxonomy                                                            *)

\* A str literal as the sequence of its characters
Str(s) == [ i \in 1..Len(s) |-> SubSeq(s, i, i) ]

\* A dict item of CATEGORY_HIERARCHY: its value is either a dict (Branch)
\* or a list of keywords (Leaf); a dict is the sequence of its items in
\* source order.
Branch(name, items) ==
    [ cat |-> Str(name), isdict |-> TRUE, items |-> items, keywords |-> << >> ]

Leaf(name, keywords) ==
    [ cat |-> Str(name), isdict |-> FALSE, items |-> << >>,
      keywords |-> [ i \in 1..Len(keywords) |-> Str(keywords[i]) ] ]

\* CATEGORY_HIERARCHY['TECHNICAL']
HIERARCHY_TECHNICAL == <<
    Branch("PROGRAMMING", <<
        Leaf(".NET", <<
            "dotnet", "csharp", "aspdotnet", "vbnet", "wpf", "winforms",
            "entityframework" >>),
        Leaf("JAVA_ECOSYSTEM", <<
            "java", "spring", "spring boot", "hibernate", "j2ee",
            "jakarta ee" >>),
        Leaf("PYTHON_ECOSYSTEM", <<
            "python", "django", "flask", "fastapi", "numpy", "pandas" >>),
        Leaf("JAVASCRIPT_TYPESCRIPT", <<
            "javascript", "typescript", "ecmascript", "es6" >>),
        Leaf("GO", <<
            "golang", "go" >>),
        Leaf("RUST", <<
            "rust" >>),
        Leaf("RUBY", <<
            "ruby", "rails", "ruby on rails" >>),
        Leaf("PHP", <<
            "php", "laravel", "symfony" >>),
        Leaf("C_CPP", <<
            "c", "c\\+\\+", "cplusplus", "cpp" >>),
        Leaf("MOBILE", <<
            "android", "ios", "flutter", "react native", "swift", "kotlin" >>),
        Leaf("CONCEPTS", <<
            "algorithms", "data structures", "design patterns", "oop",
            "object-oriented", "solid principles",
            "object oriented programming", "object-oriented programming",
            "object-oriented design" >>) >>),
    Branch("FRONTEND", <<
        Leaf("FRAMEWORKS", <<
            "react", "angular", "vue", "svelte", "ember" >>),
        Leaf("STYLING", <<
            "css", "sass", "scss", "less", "bootstrap", "tailwind" >>),
        Leaf("BUILD_TOOLS", <<
            "webpack", "vite", "rollup", "parcel" >>),
        Leaf("WEB_COMPONENTS", <<
            "html", "web components", "shadow dom", "custom elements" >>) >>),
    Branch("BACKEND", <<
        Leaf("APIS", <<
            "rest", "graphql", "grpc", "soap", "openapi", "swagger" >>),
        Leaf("SERVER", <<
            "node", "express", "nestjs", "koa", "fastify" >>),
        Leaf("AUTH", <<
            "oauth", "jwt", "openid connect", "saml", "ldap" >>),
        Leaf("MESSAGING", <<
            "kafka", "rabbitmq", "nats", "activemq" >>) >>),
    Branch("DATA", <<
        Leaf("DATABASE_SQL", <<
            "sql", "oracle", "mysql", "postgres", "postgresql", "mssql",
            "sql server", "plsql" >>),
        Leaf("DATABASE_NOSQL", <<
            "mongodb", "cassandra", "cosmosdb", "dynamodb", "firestore" >>),
        Leaf("DATA_ENGINEERING", <<
            "etl", "data pipeline", "data modeling", "data governance",
            "data warehouse" >>),
        Leaf("BIG_DATA", <<
            "spark", "hadoop", "hive", "hbase", "bigquery" >>),
        Leaf("DATA_SCIENCE", <<
            "pandas", "numpy", "scipy", "matplotlib", "seaborn" >>) >>),
    Branch("CLOUD", <<
        Leaf("AWS", <<
            "aws", "lambda", "s3", "cloudfront", "dynamodb",
            "amazon web services", "ec2", "rds" >>),
        Leaf("AZURE", <<
            "azure", "functions", "entra", "sql database", "microsoft azure",
            "azure ad" >>),
        Leaf("GCP", <<
            "gcp", "google cloud", "google cloud platform", "bigtable",
            "cloud functions" >>),
        Leaf("CLOUD_GENERAL", <<
            "kubernetes", "docker", "serverless", "paas", "saas", "iaas",
            "cloud computing" >>) >>),
    Branch("DEVOPS", <<
        Leaf("CI_CD", <<
            "ci/cd", "jenkins", "github actions", "gitlab ci", "circleci",
            "continuous integration" >>),
        Leaf("INFRA_AS_CODE", <<
            "terraform", "pulumi", "cloudformation", "ansible" >>),
        Leaf("MONITORING", <<
            "grafana", "prometheus", "datadog", "new relic", "splunk" >>),
        Leaf("VERSION_CONTROL", <<
            "git", "svn", "mercurial", "perforce" >>),
        Leaf("DEVOPS_GENERAL", <<
            "git", "svn", "mercurial", "perforce", "devops",
            "build pipelines", "infrastructure as code" >>) >>),
    Branch("TESTING", <<
        Leaf("UNIT_TESTING", <<
            "junit", "nunit", "pytest", "mocha", "jest" >>),
        Leaf("E2E_TESTING", <<
            "selenium", "cypress", "playwright", "testcafe" >>),
        Leaf("PERFORMANCE", <<
            "jmeter", "gatling", "locust", "k6" >>),
        Leaf("TEST_AUTOMATION", <<
            "test automation", "bdd", "tdd", "qa automation",
            "automated testing" >>) >>),
    Branch("ML_AI", <<
        Leaf("MACHINE_LEARNING", <<
            "machine learning", "ml", "tensorflow", "pytorch", "scikit-learn" >>),
        Leaf("DEEP_LEARNING", <<
            "deep learning", "neural networks", "cnn", "rnn" >>),
        Leaf("NLP", <<
            "nlp", "natural language processing", "transformers", "bert" >>),
        Leaf("COMPUTER_VISION", <<
            "computer vision", "opencv", "object detection",
            "image processing" >>),
        Leaf("AI_GENERAL", <<
            "ai", "artificial intelligence", "llm", "generative ai",
            "chatgpt" >>) >>),
    Branch("SECURITY", <<
        Leaf("APP_SECURITY", <<
            "owasp", "security", "penetration testing", "vulnerability" >>),
        Leaf("IDENTITY", <<
            "iam", "rbac", "sso", "oauth", "openid connect" >>),
        Leaf("CRYPTO", <<
            "encryption", "tls", "ssl", "cryptography", "hashing" >>),
        Leaf("NETWORK_SEC", <<
            "firewall", "vpn", "waf", "ids", "ips" >>) >>),
    Branch("GAME_DEV", <<
        Leaf("ENGINES", <<
            "unreal", "unity", "godot", "cryengine" >>),
        Leaf("GAMEPLAY", <<
            "gameplay", "physics", "animation", "ai" >>),
        Leaf("GRAPHICS", <<
            "opengl", "directx", "vulkan", "shaders" >>) >>),
    Branch("EMBEDDED", <<
        Leaf("IOT", <<
            "iot", "arduino", "raspberry pi", "embedded linux" >>),
        Leaf("FIRMWARE", <<
            "firmware", "rtos", "bare metal" >>),
        Leaf("DRIVERS", <<
            "device drivers", "kernel development" >>) >>),
    Branch("SYSTEM", <<
        Leaf("DESIGN", <<
            "system design", "distributed systems", "microservices",
            "scalable architectures", "event-driven architecture" >>),
        Leaf("TOOLS", <<
            "powershell", "visual studio", "linux", "cli", "cmake" >>),
        Leaf("CONCEPTS", <<
            "operating system", "networking", "file systems",
            "multi-threaded" >>) >>),
    Branch("GENERAL_TECH", <<
        Leaf("SOFTWARE_DEVELOPMENT", <<
            "ability to refactor complex, monolithic systems",
            "developed high-quality, testable software",
            "solid background in data processing",
            "performance and memory optimization techniques",
            "performance optimization", "strong development background",
            "high-performance, memory efficient, multithreaded code",
            "high-performance, memory-efficient, multithreaded code",
            "multi-threaded software", "multithreaded code",
            "object-oriented design", "object-oriented design concepts",
            "object-oriented languages", "object-relational mapping",
            "oo design", "code quality and standards adherence",
            "code reviews", "coding standards and code reviews", "debugging",
            "debugging and optimization",
            "debugging and performance optimization",
            "debugging memory corruptions", "debugging tools",
            "algorithm optimization",
            "experience across the entire development lifecycle",
            "full software development life cycle experience",
            "use of software development tools",
            "well-designed code and solid programming skills" >>),
        Leaf("WEB_DEVELOPMENT", <<
            "back-end development",
            "back-end development with some front-end experience",
            "background in full stack development",
            "building web applications at scale",
            "experience building web applications", "front-end design",
            "front-end frameworks", "frontend technologies",
            "full-stack development", "full-stack web development",
            "modern frontend frameworks", "web application development",
            "web applications", "web development", "web frameworks",
            "web technologies", "html5", "html5+", "html5/css3", "css3+",
            "mvc", "ui frameworks", "ux design" >>),
        Leaf("DATABASES", <<
            "advanced experience in relational databases", "data capture",
            "data deduplication", "data storage",
            "database design and query optimization", "database development",
            "database management", "database optimization",
            "database optimization experience", "database software",
            "document databases", "experience working with databases",
            "experience working with relational databases",
            "has executed large scale data migrations",
            "proficiency with database operations and queries",
            "relational databases",
            "strong experience in relational databases",
            "understands large datasets and data mapping" >>),
        Leaf("CLOUD_DEVOPS", <<
            "bicep/arm templates", "ci/cd", "ci/cd methodologies",
            "ci/cd pipelines", "ci/cd tools", "containers",
            "continuous deployment", "designing ci/cd pipelines and build",
            "experience in ci/cd", "experience working with containers",
            "familiarity with ci/cd pipeline",
            "familiarity with containerization and orchestration",
            "proficient with ci/cd concepts and tooling",
            "build processes and testing",
            "build processes, testing, and operations experience",
            "build systems", "logging and telemetry", "monitoring tools",
            "source control", "source control management",
            "experience using source control software", "version control",
            "high availability systems",
            "high performing transaction systems", "scalability",
            "scalable frameworks", "system performance", "systems design",
            "systems design skills" >>),
        Leaf("TESTING_QA", <<
            "automated tests",
            "experience in fast-paced, test-driven, collaborative environments",
            "familiarity with test-driven development",
            "software testing and test-driven development",
            "test driven development", "test driven development techniques",
            "test framework design", "test framework design and development",
            "test frameworks", "test-driven development", "testing",
            "testing and debugging applications",
            "unit and integration testing", "unit testing",
            "unit testing, dependency injection, ci/cd",
            "unit/integration testing" >>),
        Leaf("TOOLS_PLATFORMS", <<
            "adobe experience manager", "adobe photoshop", "autocad/revit",
            "blender", "computer-aided design", "cad development",
            "copilot studio", "dynamics 365 business central/nav",
            "dynamics 365 f&o", "dynamics 365 finance & operations",
            "dynamics 365 finance and operations", "dynamics 365 sdk",
            "dynamics 365/crm", "gis systems",
            "experience using gis systems", "google analytics experience",
            "microsoft dataverse", "microsoft dynamics 365 ce", "next.js",
            "node.js", "nodejs", "opentext teamsite/livesite", "power apps",
            "power automate", "power pages", "power platform",
            "power platform experience", "react.js",
            "react.js/vue.js/angular.js", "reactive native technology",
            "salesforce", "salesforce data models", "sharepoint",
            "sharepoint online development experience", "shopify",
            "sketchup", "springboot", "ssrs", "ssrs, ssas, ssis",
            "starlims data model", "starlims qm v12", "vb.net",
            "vb.net experience", "visualforce", "vue.js", "wordpress", "x++",
            "x++ development" >>),
        Leaf("SOFT_SKILLS", <<
            "ability to build trusted relationships",
            "ability to coach and mentor",
            "ability to conduct remote sessions",
            "ability to empathize with users",
            "ability to manage multiple projects simultaneously",
            "ability to mentor and collaborate", "ability to multi-task",
            "ability to organize and prioritize work",
            "ability to work cross-functionally", "accountability",
            "attention to detail", "attention to detail and punctual",
            "collaborating with infrastructure team", "collaboration",
            "collaboration with cross-functional teams",
            "collaboration with global teams",
            "collaborative and dynamic skills",
            "collaborative and eager to contribute ideas",
            "collaborative and team-oriented",
            "collaborative team environment",
            "collaborative team environment experience",
            "collaborative team player", "collaborative teamwork",
            "conflict resolution and consensus building",
            "continuous improvement", "continuous learning and adaptability",
            "creativity", "critical thinker and problem solver",
            "curious, always learning",
            "demonstrated ability to communicate",
            "eager & willing to learn", "energy and passion",
            "english, both written and verbal",
            "enjoy working with diverse groups", "entrepreneurial mindset",
            "entrepreneurial spirit",
            "excellent organizational and time management skills",
            "excellent organizational skills",
            "excellent troubleshooting skills", "flexible scheduling",
            "growth mindset", "growth-oriented perspective",
            "initiative and results-driven",
            "initiative to manage your own workload",
            "influencing and reasoning skills", "organized",
            "organized with strong prioritization skills",
            "passion for learning and sharing knowledge",
            "passion for technology and code", "problem solver",
            "self-driven",
            "self-motivated and competent to work independently",
            "self-motivated and great organizational skills",
            "self-motivated and independent",
            "self-motivated and passionate about ui systems",
            "self-motivated and works with minimal supervision",
            "self-motivated, responsible, and a fast learner",
            "self-starter and key contributor",
            "smiling and making others smile",
            "strong sense of responsibility",
            "strong written and verbal communicator",
            "strong written and verbal english skills", "team player",
            "team work", "teamwork", "thrive in a collaborative environment",
            "user-focused, passionate, solutions-focused, and innovative",
            "working under pressure" >>),
        Leaf("INDUSTRY_SPECIFIC", <<
            "3d metrology", "adjustment to manufacturer's specifications",
            "ax", "big data analytics", "business and systems analysis",
            "business statistics", "business statistics knowledge",
            "care coordination", "care for people and user experience",
            "chemistry", "civil engineering", "cold calling",
            "cold calling and lead generation", "com",
            "comfort with technology", "community outreach",
            "demonstrated ability in cpr techniques",
            "demonstrated ability to operate related equipment",
            "demonstrated ndt skill, knowledge or experience",
            "demonstrated success in leading development teams",
            "desktop application development",
            "diagnostic and repair skills",
            "diagnostic radiographic/fluoroscopic procedures",
            "distributed applications", "ebpf", "emergency care",
            "erp development experience", "erp integration",
            "erp integration experience", "event marketing",
            "event set up and tear down", "expertise in chemistry",
            "expertise in windows development",
            "familiarity of modern cpu/gpu hardware architectures",
            "familiarity with cache stores", "familiarity with nginx",
            "familiarity with restful api design principles",
            "familiarity with ui development", "firewalls",
            "food preparation", "forklift operation", "foxpro",
            "game development", "game industry experience", "gdscript",
            "googletest", "grade 12 diploma or equivalent", "groovy",
            "hand-eye coordination", "high school diploma or ged",
            "high school diploma/ged", "identity and access management",
            "inspection and testing of mechanical units",
            "intermediate math skills", "kernel-level development",
            "kernel-mode drivers",
            "knowledge and experience applying disa stigs", "kql",
            "kvm hypervisor", "lead generation",
            "legally able to work in canada",
            "lighting and imaging understanding", "linkedin for recruiting",
            "low-level graphics apis", "macos/windows development",
            "malware analysis", "manual dexterity", "map-reduce",
            "marine engineering", "mdm frameworks", "mechanical aptitude",
            "mechanical knowledge",
            "meeting preparation and consultant engagement",
            "mentor and coach junior team members",
            "metadata-driven definitional development experience",
            "micro-services", "minimum of five years industry experience",
            "ndt methods expertise", "net development experience",
            "network programming",
            "network programming and kernel-level experience",
            "network protocols", "network protocols/socket programming",
            "networked game principles", "nursing interventions",
            "oncology nursing", "one or more scripting languages",
            "open source development",
            "open source experience and involvement",
            "open source frameworks",
            "operating radiographic and computerized imaging equipment",
            "operating systems concepts", "operational excellence",
            "operations experience", "patient assessment",
            "patient care and safety monitoring",
            "payments or financial systems experience",
            "payments or risk experience", "physical demands compliance",
            "physical stamina", "posix apis",
            "previous game design/development experience",
            "private connectivity", "process builders",
            "product demonstrations", "product knowledge",
            "professional appearance and conduct",
            "proficient with graphics debugging tools",
            "quality and process improvement",
            "radiation protection practices", "radiology information system",
            "real-time rendering", "recent experience using knockout.js",
            "recruiting", "redis", "relevant software programs",
            "research support", "routers, network switch development", "ror",
            "safety compliance", "scala", "scheduled maintenance",
            "secure coding practices", "secure software development",
            "service oriented architecture", "service-oriented architecture",
            "shell", "sidekiq", "soc architecture", "software architecture",
            "software system operation", "solution design",
            "strategic thinker and deadline-driven",
            "strong business partnership skills", "strong grasp of sockets",
            "strong low-level os internals in windows",
            "strong performance analysis", "structural engineering",
            "tcp/ip", "tcp/udp/ip",
            "technical support for existing applications",
            "threat modelling",
            "three years recent related oncology experience", "triggers",
            "unix o/s", "using kitchen tools", "valid driver's licence",
            "valid driver's license and insurability",
            "valid passport with no travel restrictions",
            "vnc, remote desktop protocol development", "vpc endpoints",
            "web api", "web api 2", "web services", "web services/web apis",
            "websocket", "windows api/win32/com", "windows internals",
            "windows kernel programming/driver development",
            "windows os development",
            "windows os kernel and driver development",
            "windows server engineering", "xml", "xslt" >>),
        Leaf("LANGUAGE_LOCALIZATION", <<
            "bilingual", "bilingualism in french and english",
            "fluency in french", "french language proficiency" >>),
        Leaf("API_DEVELOPMENT", <<
            "api and service-level validation", "api design",
            "api development", "apis", "event-driven architecture",
            "experience building restful apis",
            "expertise in developing apis",
            "familiarity with restful api design principles", "restful api",
            "restful api design", "restful api design principles",
            "restful apis", "experience in web services", "web services",
            "web services/web apis" >>),
        Leaf("NETWORKING", <<
            "dns", "firewalls", "http", "http protocol",
            "hypervisor technologies", "ip and network connectivity",
            "internet protocols", "private connectivity", "tcp/ip",
            "tcp/udp/ip", "vpc endpoints" >>),
        Leaf("DOCUMENTATION_PORTFOLIO", <<
            "a portfolio of past projects",
            "a portfolio of successful projects",
            "balance perfect vs getting it done" >>) >>) >>

\* CATEGORY_HIERARCHY['NON_TECHNICAL']
HIERARCHY_NON_TECHNICAL == <<
    Leaf("BUSINESS", <<
        "sales", "negotiation", "client", "customer", "business development",
        "account management" >>),
    Leaf("PROJECT_MGMT", <<
        "project management", "agile", "scrum", "kanban", "waterfall" >>),
    Leaf("ANALYTICS", <<
        "business intelligence", "power bi", "tableau", "data visualization" >>),
    Leaf("OPERATIONS", <<
        "logistics", "supply chain", "inventory", "warehouse" >>),
    Branch("EDUCATION", <<
        Leaf("CERTIFICATION", <<
            "degree", "certification", "bachelor", "master", "education" >>),
        Leaf("TEACHING", <<
            "teaching", "tutoring", "mentoring", "instruction" >>) >>),
    Leaf("COMMUNICATION", <<
        "communication", "presentation", "writing", "documentation" >>),
    Leaf("LEADERSHIP", <<
        "leadership", "team building", "mentoring", "coaching" >>),
    Leaf("PROBLEM_SOLVING", <<
        "problem solving", "critical thinking", "analytical" >>) >>

\* hierarchy[name] for a dict given as its items
Child(items, name) ==
    (CHOOSE i \in Range(items) : i.cat = Str(name)).items

\* flatten_categories(hierarchy, prefix)
RECURSIVE flatten_categories(_, _)
flatten_categories(hierarchy, prefix) ==
    IF hierarchy = << >> THEN << >>
    ELSE LET first == hierarchy[1]
             rest  == flatten_categories(Tail(hierarchy), prefix)
             head  == IF first.isdict
                      THEN flatten_categories(first.items,
                                              prefix \o first.cat \o Str("_"))
                      ELSE << [ k |-> prefix \o first.cat, v |-> first.keywords ] >>
         IN  DictUpdate(head, rest)

MAIN_CATEGORIES == flatten_categories(HIERARCHY_TECHNICAL, << >>)

NON_TECH_CATEGORIES == flatten_categories(HIERARCHY_NON_TECHNICAL, << >>)

\* {**MAIN_CATEGORIES, **NON_TECH_CATEGORIES}
ALL_CATEGORIES == DictUpdate(MAIN_CATEGORIES, NON_TECH_CATEGORIES)

\* in dict order, as the alias loop of normalize_skill visits them
CATEGORY_ALIASES ==
    << << Str("aspnet"), Str("dotnet") >>,
       << Str("dotnetcore"), Str("dotnet") >>,
       << Str("netcore"), Str("dotnet") >>,
       << Str("c#"), Str("csharp") >>,
       << Str("asp.net"), Str("aspdotnet") >>,
       << Str("oop"), Str("object oriented programming") >>,
       << Str("devops"), Str("ci/cd") >>,
       << Str("cloud"), Str("cloud computing") >>,
       << Str("db"), Str("database") >> >>

DISCARD_PHRASES ==
    << Str("years of experience"), Str("experience with"),
       Str("knowledge of"), Str("understanding of") >>

MIN_GROUP_SIZE == 3

\* SIMILARITY_THRESHOLD = 0.8, in hundredths
SIMILARITY_THRESHOLD == 80

-----------------------------------------------------------------------------
(* The pure functions                                                      *)

clean_skill_name(skill_name) ==
    IF skill_name = << >> THEN << >>
    ELSE LET s1 == strip(lower(skill_name))
             s2 == re_sub_span(s1, "(", ")")
             s3 == re_sub_span(s2, "[", "]")
             s4 == re_sub_prefix(s3, Str("proficiency in"))
             s5 == re_sub_trailing_punct(s4)
         IN  strip(s5)

should_discard(skill_name) ==
    \/ Len(strip(skill_name)) < 2
    \/ WordCount(skill_name) > 6
    \/ re_search_experience(skill_name)
    \/ \E i \in 1..Len(DISCARD_PHRASES) :
          Contains(lower(skill_name), DISCARD_PHRASES[i])

\* the loop "for alias, std in CATEGORY_ALIASES.items()" from alias number i
RECURSIVE ApplyAliases(_, _)
ApplyAliases(skill, i) ==
    IF i > Len(CATEGORY_ALIASES) THEN skill
    ELSE ApplyAliases(re_sub_word(CATEGORY_ALIASES[i][1],
                                  CATEGORY_ALIASES[i][2], skill), i + 1)

normalize_skill(skill_name) ==
    IF skill_name = << >> THEN << >>
    ELSE LET s1 == strip(lower(skill_name))
             s2 == str_replace(str_replace(s1, Str(".net"), Str("dotnet")),
                               Str("c#"), Str("csharp"))
             s3 == str_replace(str_replace(str_replace(s2,
                        Str("&"), Str(" and ")), Str("/"), Str(" ")),
                        Str("-"), Str(" "))
             s4 == re_sub_non_alnum(s3)
             s5 == ApplyAliases(s4, 1)
         IN  strip(re_sub_spaces(s5))

\* difflib.SequenceMatcher(None, a, b): the length of the common run of a
\* and b that starts at a[i] and b[j]
RECURSIVE CommonRun(_, _, _, _)
CommonRun(a, b, i, j) ==
    IF i > Len(a) \/ j > Len(b) THEN 0
    ELSE IF a[i] # b[j] THEN 0
    ELSE 1 + CommonRun(a, b, i + 1, j + 1)

\* find_longest_match over the whole of a and b (no junk: isjunk is None and
\* the strings are shorter than the 200 characters autojunk starts at): the
\* longest common run; among the longest the one that starts earliest in a,
\* and among those the one that starts earliest in b.
find_longest_match(a, b) ==
    LET starts == { p \in (1..Len(a)) \X (1..Len(b)) : a[p[1]] = b[p[2]] }
        runs   == { << p[1], p[2], CommonRun(a, b, p[1], p[2]) >> : p \in starts }
    IN  IF runs = {} THEN << 1, 1, 0 >>
        ELSE LET size == Max({ r[3] : r \in runs })
                 i    == Min({ r[1] : r \in { q \in runs : q[3] = size } })
                 j    == Min({ r[2] : r \in { q \in runs : q[3] = size /\ q[1] = i } })
             IN  << i, j, size >>

\* sum of the sizes of get_matching_blocks(): the longest match, then the
\* same to its left and to its right
RECURSIVE MatchingSize(_, _)
MatchingSize(a, b) ==
    IF a = << >> \/ b = << >> THEN 0
    ELSE LET m == find_longest_match(a, b)
         IN  IF m[3] = 0 THEN 0
             ELSE m[3]
                  + MatchingSize(SubSeq(a, 1, m[1] - 1), SubSeq(b, 1, m[2] - 1))
                  + MatchingSize(From(a, m[1] + m[3]), From(b, m[2] + m[3]))

\* SequenceMatcher(None, a, b).ratio() >= SIMILARITY_THRESHOLD, where
\* ratio() is 2.0 * matches / (len(a) + len(b)), and 1.0 for two empty strings
RatioAtLeastThreshold(a, b) ==
    IF Len(a) + Len(b) = 0 THEN 100 >= SIMILARITY_THRESHOLD
    ELSE 100 * 2 * MatchingSize(a, b) >= SIMILARITY_THRESHOLD * (Len(a) + Len(b))

\* should_group_together with the test "na == nb" alone
should_group_together_same_key(a, b) == normalize_skill(a) = normalize_skill(b)

\* should_group_together without the length gate of the prefix rule
should_group_together_ungated(a, b) ==
    LET na == normalize_skill(a)
        nb == normalize_skill(b)
    IN  IF na = nb \/ re_search_word(na, nb) \/ re_search_word(nb, na)
        THEN TRUE
        ELSE IF Prefix(na, 4) = Prefix(nb, 4)
        THEN TRUE
        ELSE RatioAtLeastThreshold(na, nb)

should_group_together(a, b) ==
    LET na == normalize_skill(a)
        nb == normalize_skill(b)
    IN  IF na = nb \/ re_search_word(na, nb) \/ re_search_word(nb, na)
        THEN TRUE
        ELSE IF Prefix(na, 4) = Prefix(nb, 4) /\ Len(na) <= 5 /\ Len(nb) <= 5
        THEN TRUE
        ELSE RatioAtLeastThreshold(na, nb)

\* any(re.search(rf'\b{re.escape(kw)}\b', norm_skill) for kw in keywords)
AnyKeyword(keywords, norm_skill) ==
    \E i \in 1..Len(keywords) : re_search_word(keywords[i], norm_skill)

\* "for category, keywords in cats.items(): if any(...): return category":
\* the first category in dict order with a matching keyword; None when the
\* loop ends without returning
FirstCategory(cats, norm_skill) ==
    LET hits == { i \in 1..Len(cats) : AnyKeyword(cats[i].v, norm_skill) }
    IN  IF hits = {} THEN None ELSE cats[Min(hits)].k

\* CATEGORY_HIERARCHY['TECHNICAL']['GENERAL_TECH'] as {subcat: keywords}
GENERAL_TECH_CATS ==
    LET items == Child(HIERARCHY_TECHNICAL, "GENERAL_TECH")
    IN  [ i \in 1..Len(items) |->
            [ k |-> Str("GENERAL_TECH_") \o items[i].cat, v |-> items[i].keywords ] ]

\* determine_primary_category without its last line: nothing is returned
\* when no keyword matches
determine_primary_category_no_fallback(skill_name) ==
    LET norm_skill == normalize_skill(skill_name)
        tech       == FirstCategory(MAIN_CATEGORIES, norm_skill)
        nontech    == FirstCategory(NON_TECH_CATEGORIES, norm_skill)
        general    == FirstCategory(GENERAL_TECH_CATS, norm_skill)
    IN  IF tech # None THEN tech
        ELSE IF nontech # None THEN nontech
        ELSE general

determine_primary_category(skill_name) ==
    LET norm_skill == normalize_skill(skill_name)
        tech       == FirstCategory(MAIN_CATEGORIES, norm_skill)
        nontech    == FirstCategory(NON_TECH_CATEGORIES, norm_skill)
        general    == FirstCategory(GENERAL_TECH_CATS, norm_skill)
    IN  IF tech # None THEN tech
        ELSE IF nontech # None THEN nontech
        ELSE IF general # None THEN general
        ELSE Str("GENERAL_TECH")

-----------------------------------------------------------------------------
(* The stages of the pipeline                                              *)

\* the keys extract_all_skill_names_from_jobs reads of every job
SKILL_ARRAYS ==
    { "KeySkillsRequired", "EssentialQualifications",
      "EssentialTechnicalSkillQualifications", "OtherTechnicalSkillQualifications" }

\* job.get(key, [])
JobArray(job, key) == IF key \in DOMAIN job THEN job[key] ELSE << >>

\* skill.get('Name')
EntryName(skill) == IF "Name" \in DOMAIN skill THEN skill.Name ELSE None

\* A value of the input file that is not of the type the code expects.  A
\* skill entry that is not a JSON object is the record JsonValue(kind, value),
\* which has no field of a skill entry; a 'Name' that is a JSON number n is
\* "number" followed by its digits, JsonNumber(digits): no str starts so, since
\* the elements of a str are single characters.
JsonValue(kind, value) == [ json |-> kind, value |-> value ]

JsonNumber(digits) == << "number" >> \o Str(digits)

\* the entry has .get(): it is a dict
IsMapping(skill) == "json" \notin DOMAIN skill

\* the name has .lower(): it is a str
IsStr(name) == name = << >> \/ name[1] # "number"

\* "if name:" for a str, None or a number
Truthy(name) == name # << >> /\ name # JsonNumber("0")

\* the names of one array that pass "if name:" and "if cleaned and not
\* should_discard(cleaned):", cleaned
CleanedNames(array) ==
    { clean_skill_name(EntryName(array[e])) :
        e \in { i \in 1..Len(array) :
                  LET name    == EntryName(array[i])
                      cleaned == clean_skill_name(name)
                  IN  Truthy(name) /\ cleaned # << >> /\ ~should_discard(cleaned) } }

\* the set "skills" that extract_all_skill_names_from_jobs has built when
\* its loops end
ExtractedSet(data) ==
    UNION { CleanedNames(JobArray(data[j], key)) :
              << j, key >> \in (1..Len(data)) \X SKILL_ARRAYS }

\* every list that list(skills) can be: the elements of the set in some order
Orderings(S) ==
    { p \in [ 1..Cardinality(S) -> S ] :
        \A i, j \in 1..Cardinality(S) : i # j => p[i] # p[j] }

\* the body of the innermost loop raises AttributeError for this entry:
\* skill.get of an entry that is no dict, or skill_name.lower() in
\* clean_skill_name of a name that passed "if name:" and is no str
EntryRaises(skill) ==
    \/ ~IsMapping(skill)
    \/ (Truthy(EntryName(skill)) /\ ~IsStr(EntryName(skill)))

\* some iteration of the loops raises, and the "except Exception" of
\* extract_all_skill_names_from_jobs catches it
ExtractRaises(data) ==
    \E j \in 1..Len(data) : \E key \in SKILL_ARRAYS :
        \E i \in 1..Len(JobArray(data[j], key)) :
            EntryRaises(JobArray(data[j], key)[i])

\* every list extract_all_skill_names_from_jobs can return for the parsed
\* file data: list(skills), or [] from the except branch
extract_all_skill_names_from_jobs(data) ==
    IF ExtractRaises(data) THEN { << >> } ELSE Orderings(ExtractedSet(data))

\* FirstFit without the "break": the skill joins the group created last
\* among those whose key it should be grouped with
FirstFitLatest(grps, skill) ==
    LET fits == { g \in 1..Len(grps) : should_group_together(skill, grps[g].k) }
    IN  IF fits = {} THEN 0 ELSE Max(fits)

\* one iteration of the loop of create_initial_groups: skill joins the first
\* group (in insertion order) whose key it should be grouped with, else it
\* starts a group of its own
FirstFit(grps, skill) ==
    LET fits == { g \in 1..Len(grps) : should_group_together(skill, grps[g].k) }
    IN  IF fits = {} THEN 0 ELSE Min(fits)

\* AddToGroups with "groups[skill] = []" for "groups[skill] = [skill]": the
\* skill that starts a group is its key but not a member
AddToGroupsEmptyStart(grps, skill) ==
    LET g == FirstFit(grps, skill)
    IN  IF g # 0
        THEN [ grps EXCEPT ![g].v = Append(@, skill) ]
        ELSE Append(grps, [ k |-> skill, v |-> << >> ])

\* AddToGroups with "groups[group].insert(0, skill)" for
\* "groups[group].append(skill)"
AddToGroupsInFront(grps, skill) ==
    LET g == FirstFit(grps, skill)
    IN  IF g # 0
        THEN [ grps EXCEPT ![g].v = << skill >> \o @ ]
        ELSE Append(grps, [ k |-> skill, v |-> << skill >> ])

AddToGroups(grps, skill) ==
    LET g == FirstFit(grps, skill)
    IN  IF g # 0
        THEN [ grps EXCEPT ![g].v = Append(@, skill) ]
        ELSE Append(grps, [ k |-> skill, v |-> << skill >> ])

\* create_initial_groups(skills) as a whole
RECURSIVE GroupsFrom(_, _)
GroupsFrom(grps, todo) ==
    IF todo = << >> THEN grps
    ELSE GroupsFrom(AddToGroups(grps, todo[1]), Tail(todo))

create_initial_groups(skill_list) == GroupsFrom(<< >>, skill_list)

\* BelowThreshold with "<=" for "<"
BelowThresholdInclusive(members) == Len(members) <= MIN_GROUP_SIZE

\* len(skills) < MIN_GROUP_SIZE
BelowThreshold(members) == Len(members) < MIN_GROUP_SIZE

\* The loop of consolidate_groups from group number g on.  st.cons is the
\* dict "consolidated"; st.alias[i] is the number of the group whose list
\* object consolidated's i-th value is (0 for a list made by setdefault);
\* st.groups is the argument, whose lists an extend() through an alias
\* changes.
RECURSIVE ConsolidateFrom(_, _)
ConsolidateFrom(st, g) ==
    IF g > Len(st.groups) THEN st
    ELSE LET group_name == st.groups[g].k
             members    == st.groups[g].v
             category   == determine_primary_category(group_name)
         IN  IF BelowThreshold(members)
             THEN \* consolidated.setdefault(category, []).extend(skills)
                  IF category \in Keys(st.cons)
                  THEN LET i == IndexOf(st.cons, category)
                           a == st.alias[i]
                       IN  ConsolidateFrom(
                             [ cons   |-> [ st.cons EXCEPT ![i].v = @ \o members ],
                               alias  |-> st.alias,
                               groups |-> IF a = 0 THEN st.groups
                                          ELSE [ st.groups EXCEPT ![a].v = @ \o members ] ],
                             g + 1)
                  ELSE ConsolidateFrom(
                         [ cons   |-> Append(st.cons, [ k |-> category, v |-> members ]),
                           alias  |-> Append(st.alias, 0),
                           groups |-> st.groups ],
                         g + 1)
             ELSE \* consolidated[group_name] = skills
                  IF group_name \in Keys(st.cons)
                  THEN LET i == IndexOf(st.cons, group_name)
                       IN  ConsolidateFrom(
                             [ cons   |-> [ st.cons EXCEPT ![i].v = members ],
                               alias  |-> [ st.alias EXCEPT ![i] = g ],
                               groups |-> st.groups ],
                             g + 1)
                  ELSE ConsolidateFrom(
                         [ cons   |-> Append(st.cons, [ k |-> group_name, v |-> members ]),
                           alias  |-> Append(st.alias, g),
                           groups |-> st.groups ],
                         g + 1)

ConsolidateRun(grps) ==
    ConsolidateFrom([ cons |-> << >>, alias |-> << >>, groups |-> grps ], 1)

\* the value consolidate_groups(groups) returns
consolidate_groups(grps) == SortedValues(ConsolidateRun(grps).cons)

\* the loops of filter_and_reclassify_groups over the members, flattened in
\* the order the loops visit them
RECURSIVE MembersFrom(_, _)
MembersFrom(d, i) ==
    IF i > Len(d) THEN << >> ELSE d[i].v \o MembersFrom(d, i + 1)

\* AllMembers with "for skill in skills[1:]": the first member of every
\* bucket is not visited
AllMembersAfterFirst(d) ==
    MembersFrom([ i \in 1..Len(d) |->
                    [ k |-> d[i].k,
                      v |-> IF d[i].v = << >> THEN << >> ELSE Tail(d[i].v) ] ], 1)

AllMembers(d) == MembersFrom(d, 1)

\* ReclassifyFrom without "if should_discard(skill): continue"
RECURSIVE ReclassifyFromUnfiltered(_, _)
ReclassifyFromUnfiltered(final, todo) ==
    IF todo = << >> THEN final
    ELSE LET skill   == todo[1]
             new_cat == determine_primary_category(skill)
         IN  ReclassifyFromUnfiltered(
               IF new_cat \in Keys(final)
               THEN [ final EXCEPT ![IndexOf(final, new_cat)].v = Append(@, skill) ]
               ELSE Append(final, [ k |-> new_cat, v |-> << skill >> ]),
               Tail(todo))

RECURSIVE ReclassifyFrom(_, _)
ReclassifyFrom(final, todo) ==
    IF todo = << >> THEN final
    ELSE LET skill == todo[1]
         IN  IF should_discard(skill)
             THEN ReclassifyFrom(final, Tail(todo))
             ELSE LET new_cat == determine_primary_category(skill)
                  IN  ReclassifyFrom(
                        IF new_cat \in Keys(final)
                        THEN [ final EXCEPT ![IndexOf(final, new_cat)].v = Append(@, skill) ]
                        ELSE Append(final, [ k |-> new_cat, v |-> << skill >> ]),
                        Tail(todo))

\* filter_and_reclassify_groups with "new_cat = category": the members that
\* should_discard does not flag stay under the key of their bucket
filter_and_reclassify_groups_keeping_keys(grps) ==
    LET kept(v) == SelectSeq(v, LAMBDA skill : ~should_discard(skill))
        full    == { i \in 1..Len(grps) : kept(grps[i].v) # << >> }
    IN  SortedValues([ r \in 1..Cardinality(full) |->
            LET i == CHOOSE j \in full :
                        Cardinality({ h \in full : h <= j }) = r
            IN  [ k |-> grps[i].k, v |-> kept(grps[i].v) ] ])

filter_and_reclassify_groups(grps) ==
    SortedValues(ReclassifyFrom(<< >>, AllMembers(grps)))

-----------------------------------------------------------------------------
(* The output files                                                        *)

\* sorted(xs), where before[i, j] tells whether xs[i] is strictly before
\* xs[j] in the order.  Python's sort is stable: the place of xs[i] is after
\* the earlier elements it is not strictly before and after the later
\* elements that are strictly before it
Sorted(xs, before) ==
    LET place(i) ==
            1 + Cardinality({ j \in 1..(i - 1) : ~before[i, j] })
              + Cardinality({ j \in (i + 1)..Len(xs) : before[j, i] })
    IN  [ r \in 1..Len(xs) |-> xs[CHOOSE i \in 1..Len(xs) : place(i) = r] ]

\* sorted(groups.items()): the keys of a dict differ, so the items are in
\* the order of their keys
ItemBefore(x, y) == StrLess(x.k, y.k)

\* save_categories_summary(groups, output_path): per category in sorted
\* order the header "[category] - n skills" and the lines of sorted(skills)
save_categories_summary(grps) ==
    LET items == Sorted(grps, [ i, j \in 1..Len(grps) |->
                                  ItemBefore(grps[i], grps[j]) ])
        sorted(v) == Sorted(v, [ i, j \in 1..Len(v) |-> StrLess(v[i], v[j]) ])
    IN  [ i \in 1..Len(items) |->
            [ category |-> items[i].k,
              count    |-> Len(items[i].v),
              lines    |-> sorted(items[i].v) ] ]

\* skill.get('RelevancePercentage', 0): a relevance is a number of
\* thousandths, so that round(x, 2) has something to round
RelevanceOf(skill) ==
    IF "RelevancePercentage" \in DOMAIN skill THEN skill.RelevancePercentage ELSE 0

\* round(x, 2) of a number of thousandths that is no tie (x does not end in 5)
Round2(x) == ((x + 5) \div 10) * 10

UNCATEGORIZED == Str("UNCATEGORIZED")

\* skill_to_category.get(cleaned, "UNCATEGORIZED"): skill_to_category[skill]
\* is set bucket after bucket, so the last bucket that lists the skill wins
SkillToCategory(final, cleaned) ==
    LET holders == { i \in 1..Len(final) : cleaned \in Range(final[i].v) }
    IN  IF holders = {} THEN UNCATEGORIZED ELSE final[Max(holders)].k

\* RollupFrom with "= relevance" for "+= relevance": a later entry of a
\* category replaces what the earlier ones gave it
RECURSIVE RollupFromReplacing(_, _, _, _)
RollupFromReplacing(category_map, array, i, final) ==
    IF i > Len(array) THEN category_map
    ELSE LET skill     == array[i]
             name      == EntryName(skill)
             relevance == RelevanceOf(skill)
             cleaned   == clean_skill_name(name)
         IN  IF Truthy(name) /\ cleaned # << >> /\ ~should_discard(cleaned)
             THEN RollupFromReplacing(
                    DictSet(category_map, SkillToCategory(final, cleaned), relevance),
                    array, i + 1, final)
             ELSE RollupFromReplacing(category_map, array, i + 1, final)

\* the loop "for skill in job.get(array_name, [])" from entry number i on;
\* category_map is the dict category -> accumulated relevance
RECURSIVE RollupFrom(_, _, _, _)
RollupFrom(category_map, array, i, final) ==
    IF i > Len(array) THEN category_map
    ELSE LET skill     == array[i]
             name      == EntryName(skill)
             relevance == RelevanceOf(skill)
             cleaned   == clean_skill_name(name)
         IN  IF Truthy(name) /\ cleaned # << >> /\ ~should_discard(cleaned)
             THEN LET category == SkillToCategory(final, cleaned)
                  IN  RollupFrom(
                        IF category \in Keys(category_map)
                        THEN DictSet(category_map, category,
                                     Get(category_map, category) + relevance)
                        ELSE DictSet(category_map, category, relevance),
                        array, i + 1, final)
             ELSE RollupFrom(category_map, array, i + 1, final)

\* RelevanceBefore without reverse=True
RelevanceBeforeAscending(x, y) == x.relevance < y.relevance

\* key=lambda x: x["relevance"], reverse=True
RelevanceBefore(x, y) == x.relevance > y.relevance

\* job['Skills']
JobSkills(job, final, array_name) ==
    LET category_map == RollupFrom(<< >>, JobArray(job, array_name), 1, final)
        items == [ i \in 1..Len(category_map) |->
                     [ category  |-> category_map[i].k,
                       relevance |-> Round2(category_map[i].v) ] ]
    IN  Sorted(items, [ i, j \in 1..Len(items) |->
                          RelevanceBefore(items[i], items[j]) ])

\* some entry of the rolled-up array raises in the loop body, and the
\* "except Exception" of save_augmented_jobs_with_skills catches it
AugmentRaises(data, array_name) ==
    \E j \in 1..Len(data) : \E i \in 1..Len(JobArray(data[j], array_name)) :
        EntryRaises(JobArray(data[j], array_name)[i])

\* no file
NotWritten == [ written |-> FALSE, jobs |-> << >> ]

\* save_augmented_jobs_with_skills(input_file, final_groups, array_name):
\* the file it writes holds every job with its 'Skills'; nothing is written
\* when the loop raised
save_augmented_jobs_with_skills(data, final, array_name) ==
    IF AugmentRaises(data, array_name) THEN NotWritten
    ELSE [ written |-> TRUE,
           jobs    |-> [ j \in 1..Len(data) |->
                           [ f \in DOMAIN data[j] \cup { "Skills" } |->
                               IF f = "Skills"
                               THEN JobSkills(data[j], final, array_name)
                               ELSE data[j][f] ] ] ]

-----------------------------------------------------------------------------
(* Inputs                                                                  *)

\* the most names a generated input file lists
MaxSkills == 3

\* the most words of a generated argument of a one-argument call
MaxWords == 2

\* the most characters after the 4-character stem of a generated argument
\* of should_group_together
MaxSuffix == 3

\* a skill entry as json.load returns it
Entry(name) == [ Name |-> Str(name) ]

\* the names the generated input files are made of, as job postings spell
\* them
SkillPool ==
    << "React", "React Native", "ReactJS", "react", "Kafka", "Zig",
       "5+ years of experience", "Proficiency in Python (3.x)." >>

\* the entries of the pool names numbered in S, in pool order
PoolEntries(S) ==
    LET numbered == [ i \in 1..Len(SkillPool) |-> << i, Entry(SkillPool[i]) >> ]
        chosen   == SelectSeq(numbered, LAMBDA p : p[1] \in S)
    IN  [ i \in 1..Len(chosen) |-> chosen[i][2] ]

\* the input files of the end-to-end scenarios
Scenario1 ==
    << [ KeySkillsRequired |-> << Entry("C#"), Entry(".NET Core"), Entry("AWS Lambda") >>,
         EssentialQualifications |-> << Entry("React.js"), Entry("react") >> ] >>

Scenario2 ==
    << [ KeySkillsRequired |-> << Entry("5+ years of experience") >> ],
       [ EssentialQualifications |-> << Entry("Bachelor's degree required") >> ] >>

Scenario3 ==
    << [ KeySkillsRequired |-> << Entry("Kafka"), Entry("RabbitMQ"), Entry("NATS") >> ] >>

\* an input file whose skills can form a group of 3 and a group of 2
ThresholdFile ==
    << [ KeySkillsRequired |-> << Entry("React"), Entry("React Native"), Entry("ReactJS") >>,
         OtherTechnicalSkillQualifications |-> << Entry("Kafka"), Entry("Kafka Streams") >> ] >>

\* skill entries that are malformed: no 'Name', an empty 'Name', a null
\* 'Name', a 'Name' that is a number, and an entry that is a JSON string
MalformedEntries ==
    << [ RelevancePercentage |-> 50 ],
       [ Name |-> << >> ],
       [ Name |-> JsonNumber("0") ],
       [ Name |-> JsonNumber("123") ],
       JsonValue("string", Str("Python")) >>

\* input files of two jobs with one malformed entry between well-formed ones
MalformedFiles ==
    { << [ KeySkillsRequired |-> << Entry("Kafka"), MalformedEntries[m] >> ],
         [ EssentialQualifications |-> << Entry("React") >> ] >> :
        m \in 1..Len(MalformedEntries) }

\* a skill entry with its relevance, in thousandths
EntryWith(name, relevance) ==
    [ Name |-> Str(name), RelevancePercentage |-> relevance ]

\* the relevances of the generated entries, in thousandths (33.334 and 50);
\* << >> is for an entry without 'RelevancePercentage'
RelevanceChoices == { << >>, << 33334 >>, << 50000 >> }

Weighted(name, relevance) ==
    IF relevance = << >> THEN Entry(name) ELSE EntryWith(name, relevance[1])

\* input files of two jobs whose entries carry relevances: the first job
\* lists three skills, two of them of one category, with any relevances
RollupFiles ==
    { << [ KeySkillsRequired |->
             << Weighted("React", r[1]), Weighted("Kafka", r[2]), Weighted("Vue", r[3]) >> ],
         [ KeySkillsRequired |->
             << EntryWith("Kafka", 50000), EntryWith("Vue", 50000) >>,
           EssentialQualifications |-> << EntryWith("React", 33334) >> ] >> :
        r \in RelevanceChoices \X RelevanceChoices \X RelevanceChoices }

\* an input file whose malformed entry is in an array the rollup does not read
MalformedElsewhere ==
    << [ KeySkillsRequired |-> << EntryWith("Kafka", 50000), EntryWith("React", 33334) >>,
         EssentialQualifications |-> << [ Name |-> JsonNumber("123") ] >> ] >>

\* every input file of the model: the scenarios, the files with a malformed
\* entry, the files with relevances, and one job that lists up to MaxSkills
\* names of the pool
InputFiles ==
    { Scenario1, Scenario2, Scenario3, ThresholdFile, MalformedElsewhere }
    \cup MalformedFiles
    \cup RollupFiles
    \cup { << [ KeySkillsRequired |-> PoolEntries(S) ] >> :
             S \in { T \in SUBSET (1..Len(SkillPool)) : Cardinality(T) <= MaxSkills } }

\* the words and separators the arguments of the one-argument calls are
\* made of
Vocabulary ==
    << "devops", "cloud", "db", "oop", "python", "teamwork", "Zig", "C#", "++",
       "tensorflow", "communication" >>

Separators == << " ", "/" >>

RECURSIVE Phrases(_)
Phrases(n) ==
    IF n = 0 THEN { << >> }
    ELSE IF n = 1 THEN { Str(Vocabulary[w]) : w \in 1..Len(Vocabulary) }
    ELSE Phrases(n - 1)
         \cup { p \o Str(Separators[s]) \o Str(Vocabulary[w]) :
                  << p, s, w >> \in (Phrases(n - 1) \ { << >> })
                                    \X (1..Len(Separators)) \X (1..Len(Vocabulary)) }

UnaryInputs == Phrases(MaxWords) \cup { << >> }

\* the arguments of should_group_together: a 4-character stem followed by up
\* to MaxSuffix characters, strings that normalize to the empty key, and
\* strings that differ from others in one character of the stem
Stems == { Str("java"), Str("reac") }

SuffixChars == { "s", "x", " " }

RECURSIVE Suffixes(_)
Suffixes(n) ==
    IF n = 0 THEN { << >> }
    ELSE Suffixes(n - 1)
         \cup { Append(s, c) : << s, c >> \in Suffixes(n - 1) \X SuffixChars }

JudgeInputs ==
    { stem \o suffix : << stem, suffix >> \in Stems \X Suffixes(MaxSuffix) }
    \cup { << >>, Str("++"), Str("jabas"), Str("jabaxx") }

\* the leading boilerplate phrases of skill names; << >> is for a name
\* without one
BoilerplatePrefixes ==
    << "proficiency in", "experience with", "knowledge of", "strong",
       "expertise in", "familiarity with", "ability to" >>

\* what follows the skill in a name: punctuation, repeated or before a
\* parenthetical
Tails == << "", ".", ",", ";", ":", "..", ".,", ". (3.x)", ", [v2]", " (3.x)." >>

\* the arguments of clean_skill_name: an optional boilerplate phrase, in
\* lower case or capitalised, a skill and a tail
CleanerInputs ==
    { Str(lead) \o Str(skill) \o Str(Tails[t]) :
        << lead, skill, t >> \in
            ({ "", "Proficiency in ", "Strong " }
               \cup { BoilerplatePrefixes[b] \o " " : b \in 1..Len(BoilerplatePrefixes) })
            \X { "Python", "c++" } \X (1..Len(Tails)) }
    \cup { << >> }

\* the most items of a generated argument of consolidate_groups and of
\* filter_and_reclassify_groups
MaxBuckets == 2

\* the keys of the generated maps: representatives and category paths
StageKeys == << "react", "zig", "FRONTEND_FRAMEWORKS", "GENERAL_TECH" >>

\* the lists of the generated maps: below and at MIN_GROUP_SIZE, unsorted,
\* with a str twice, with members should_discard flags
StageLists ==
    << << "react" >>,
       << "zig", "kafka" >>,
       << "vue", "angular", "svelte" >>,
       << "zig", "react", "zig" >>,
       << "5+ years of experience", "kafka", "x" >> >>

StageItem(key, list) ==
    [ k |-> Str(StageKeys[key]),
      v |-> [ i \in 1..Len(StageLists[list]) |-> Str(StageLists[list][i]) ] ]

\* the dicts of up to n items with pairwise different keys
RECURSIVE StageMaps(_)
StageMaps(n) ==
    IF n = 0 THEN { << >> }
    ELSE StageMaps(n - 1)
         \cup { Append(d, StageItem(key, list)) :
                  << d, key, list >> \in
                      { x \in StageMaps(n - 1) \X (1..Len(StageKeys))
                                              \X (1..Len(StageLists)) :
                          Str(StageKeys[x[2]]) \notin Keys(x[1]) } }

StageInputs == StageMaps(MaxBuckets)

\* the most levels of dicts of a generated taxonomy
MaxDepth == 2

\* the category names and the keyword lists of the generated taxonomies
TaxonomyNames == { Str("A"), Str("B"), Str("A_B") }

KeywordLists == { << Str("x") >>, << Str("y") >> }

\* the items a dict of n levels can hold: a keyword list, or a dict of one
\* item of n - 1 levels
RECURSIVE TaxonomyItems(_)
TaxonomyItems(n) ==
    { [ cat |-> name, isdict |-> FALSE, items |-> << >>, keywords |-> kws ] :
        << name, kws >> \in TaxonomyNames \X KeywordLists }
    \cup IF n <= 1 THEN {}
         ELSE { [ cat |-> name, isdict |-> TRUE, items |-> << item >>,
                  keywords |-> << >> ] :
                  << name, item >> \in TaxonomyNames \X TaxonomyItems(n - 1) }

\* the dicts of one or two items of up to n levels, as arguments of
\* flatten_categories
Taxonomies(n) ==
    { << i >> : i \in TaxonomyItems(n) }
    \cup { << i, j >> : << i, j >> \in
              { x \in TaxonomyItems(n) \X TaxonomyItems(n) : x[1].cat # x[2].cat } }

-----------------------------------------------------------------------------
(* main(): the pipeline                                                    *)

NoCall == argA = << >> /\ argB = << >> /\ call = "none" /\ ret = << >>

Init ==
    /\ pc = "start"
    /\ jobs \in InputFiles
    /\ skills = << >>
    /\ idx = 0
    /\ groups = << >>
    /\ consolidated = << >>
    /\ final_groups = << >>
    /\ output_file = << >>
    /\ summary_file = << >>
    /\ augmented_file = NotWritten
    /\ NoCall

\* skills = extract_all_skill_names_from_jobs(input_file): list(skills) is
\* the set in whatever order the str hashes of this run give it, or [] when
\* an entry of the file made the function raise
Extract ==
    /\ pc = "start"
    /\ skills' \in extract_all_skill_names_from_jobs(jobs)
    /\ pc' = IF skills' = << >> THEN "consolidate" ELSE "group"
    /\ UNCHANGED << jobs, idx, groups, consolidated, final_groups, output_file,
                    summary_file, augmented_file, argA, argB, call, ret >>

\* GroupStep with a loop that does not end after the last skill
GroupStepNoExit ==
    /\ pc = "group"
    /\ idx < Len(skills)
    /\ groups' = AddToGroups(groups, skills[idx + 1])
    /\ idx' = idx + 1
    /\ pc' = "group"
    /\ UNCHANGED << jobs, skills, consolidated, final_groups, output_file,
                    summary_file, augmented_file, argA, argB, call, ret >>

\* one iteration of the loop of create_initial_groups(skills); after the
\* last one the function returns
GroupStep ==
    /\ pc = "group"
    /\ idx < Len(skills)
    /\ groups' = AddToGroups(groups, skills[idx + 1])
    /\ idx' = idx + 1
    /\ pc' = IF idx' = Len(skills) THEN "consolidate" ELSE "group"
    /\ UNCHANGED << jobs, skills, consolidated, final_groups, output_file,
                    summary_file, augmented_file, argA, argB, call, ret >>

\* consolidated = consolidate_groups(initial_groups)
Consolidate ==
    /\ pc = "consolidate"
    /\ consolidated' = consolidate_groups(groups)
    /\ groups' = ConsolidateRun(groups).groups
    /\ pc' = "reclassify"
    /\ UNCHANGED << jobs, skills, idx, final_groups, output_file,
                    summary_file, augmented_file, argA, argB, call, ret >>

\* final_groups = filter_and_reclassify_groups(consolidated)
Reclassify ==
    /\ pc = "reclassify"
    /\ final_groups' = filter_and_reclassify_groups(consolidated)
    /\ pc' = "save"
    /\ UNCHANGED << jobs, skills, idx, groups, consolidated, output_file,
                    summary_file, augmented_file, argA, argB, call, ret >>

\* save_results(output_file, final_groups): json.dump writes the keys in the
\* order of the dict
SaveResults ==
    /\ pc = "save"
    /\ output_file' = final_groups
    /\ pc' = "summary"
    /\ UNCHANGED << jobs, skills, idx, groups, consolidated, final_groups,
                    summary_file, augmented_file, argA, argB, call, ret >>

\* save_categories_summary(final_groups, summary_file)
SaveSummary ==
    /\ pc = "summary"
    /\ summary_file' = save_categories_summary(final_groups)
    /\ pc' = "augment"
    /\ UNCHANGED << jobs, skills, idx, groups, consolidated, final_groups,
                    output_file, augmented_file, argA, argB, call, ret >>

\* save_augmented_jobs_with_skills(input_file, final_groups,
\* 'KeySkillsRequired'), which reads the input file again; main returns
SaveAugmented ==
    /\ pc = "augment"
    /\ augmented_file' =
          save_augmented_jobs_with_skills(jobs, final_groups, "KeySkillsRequired")
    /\ pc' = "done"
    /\ UNCHANGED << jobs, skills, idx, groups, consolidated, final_groups,
                    output_file, summary_file, argA, argB, call, ret >>

Next ==
    \/ Extract
    \/ GroupStep
    \/ Consolidate
    \/ Reclassify
    \/ SaveResults
    \/ SaveSummary
    \/ SaveAugmented

Spec == Init /\ [][Next]_vars

\* the guards of the actions of Next: main has a statement left to run
CanStep ==
    \/ pc \in { "start", "consolidate", "reclassify", "save", "summary", "augment" }
    \/ (pc = "group" /\ idx < Len(skills))

\* what every step of Next does to the position of main: it moves pc or idx
Progress ==
    /\ CanStep
    /\ pc' \in { "group", "consolidate", "reclassify", "save", "summary",
                 "augment", "done" }
    /\ idx' \in 0..Len(skills)

\* main is one thread that runs statement after statement: while it has a
\* statement left to run, it runs it.  The fairness is stated on the position
\* of main, which every step of Next moves, so that whether a step is enabled
\* is decided by the guards alone.
SpecFair == Spec /\ WF_<< pc, idx >>(Progress)

-----------------------------------------------------------------------------
(* Direct calls of the pure functions                                      *)

NoRun ==
    /\ pc = "call"
    /\ jobs = << >>
    /\ skills = << >>
    /\ idx = 0
    /\ groups = << >>
    /\ consolidated = << >>
    /\ final_groups = << >>
    /\ output_file = << >>
    /\ summary_file = << >>
    /\ augmented_file = NotWritten

pipeline ==
    << pc, jobs, skills, idx, groups, consolidated, final_groups, output_file,
       summary_file, augmented_file >>

InitCall1 ==
    /\ NoRun
    /\ argA \in UnaryInputs
    /\ argB = << >>
    /\ call = "none"
    /\ ret = << >>

CallNormalize ==
    /\ call = "none"
    /\ call' = "normalize_skill"
    /\ ret' = normalize_skill(argA)
    /\ UNCHANGED << pipeline, argA, argB >>

\* normalize_skill applied to what normalize_skill returned
CallNormalizeAgain ==
    /\ call = "normalize_skill"
    /\ call' = "normalize_skill(normalize_skill)"
    /\ ret' = normalize_skill(ret)
    /\ UNCHANGED << pipeline, argA, argB >>

CallCategory ==
    /\ call = "none"
    /\ call' = "determine_primary_category"
    /\ ret' = determine_primary_category(argA)
    /\ UNCHANGED << pipeline, argA, argB >>

NextCall1 == CallNormalize \/ CallNormalizeAgain \/ CallCategory

SpecCall1 == InitCall1 /\ [][NextCall1]_vars

InitCall2 ==
    /\ NoRun
    /\ argA \in JudgeInputs
    /\ argB \in JudgeInputs
    /\ call = "none"
    /\ ret = << >>

CallShouldGroup ==
    /\ call = "none"
    /\ call' = "should_group_together"
    /\ ret' = should_group_together(argA, argB)
    /\ UNCHANGED << pipeline, argA, argB >>

NextCall2 == CallShouldGroup

SpecCall2 == InitCall2 /\ [][NextCall2]_vars

InitClean ==
    /\ NoRun
    /\ argA \in CleanerInputs
    /\ argB = << >>
    /\ call = "none"
    /\ ret = << >>

CallClean ==
    /\ call = "none"
    /\ call' = "clean_skill_name"
    /\ ret' = clean_skill_name(argA)
    /\ UNCHANGED << pipeline, argA, argB >>

NextClean == CallClean

SpecClean == InitClean /\ [][NextClean]_vars

\* a call of Stage 2 or of Stage 3 on a dict of the caller: groups is the
\* dict object that is passed, argA what it held when it was passed
InitStages ==
    /\ pc = "call"
    /\ jobs = << >>
    /\ skills = << >>
    /\ idx = 0
    /\ groups \in StageInputs
    /\ argA = groups
    /\ consolidated = << >>
    /\ final_groups = << >>
    /\ output_file = << >>
    /\ summary_file = << >>
    /\ augmented_file = NotWritten
    /\ argB = << >>
    /\ call = "none"
    /\ ret = << >>

\* consolidated = consolidate_groups(groups)
CallConsolidate ==
    /\ call = "none"
    /\ call' = "consolidate_groups"
    /\ consolidated' = consolidate_groups(groups)
    /\ groups' = ConsolidateRun(groups).groups
    /\ UNCHANGED << pc, jobs, skills, idx, final_groups, output_file,
                    summary_file, augmented_file, argA, argB, ret >>

\* final_groups = filter_and_reclassify_groups(groups)
CallReclassify ==
    /\ call = "none"
    /\ call' = "filter_and_reclassify_groups"
    /\ final_groups' = filter_and_reclassify_groups(groups)
    /\ UNCHANGED << pc, jobs, skills, idx, groups, consolidated, output_file,
                    summary_file, augmented_file, argA, argB, ret >>

\* ret = filter_and_reclassify_groups(final_groups)
CallReclassifyAgain ==
    /\ call = "filter_and_reclassify_groups"
    /\ call' = "filter_and_reclassify_groups(filter_and_reclassify_groups)"
    /\ ret' = filter_and_reclassify_groups(final_groups)
    /\ UNCHANGED << pc, jobs, skills, idx, groups, consolidated, final_groups,
                    output_file, summary_file, augmented_file, argA, argB >>

NextStages == CallConsolidate \/ CallReclassify \/ CallReclassifyAgain

SpecStages == InitStages /\ [][NextStages]_vars

\* flatten_categories called on a taxonomy of its own: argA is
\* CATEGORY_HIERARCHY['TECHNICAL'], argB CATEGORY_HIERARCHY['NON_TECHNICAL']
InitFlatten ==
    /\ NoRun
    /\ argA \in Taxonomies(MaxDepth)
    /\ argB \in Taxonomies(1)
    /\ call = "none"
    /\ ret = << >>

\* MAIN_CATEGORIES = flatten_categories(CATEGORY_HIERARCHY['TECHNICAL'])
CallFlatten ==
    /\ call = "none"
    /\ call' = "flatten_categories"
    /\ ret' = flatten_categories(argA, << >>)
    /\ UNCHANGED << pipeline, argA, argB >>

\* ALL_CATEGORIES = {**MAIN_CATEGORIES, **NON_TECH_CATEGORIES}
CallMerge ==
    /\ call = "flatten_categories"
    /\ call' = "ALL_CATEGORIES"
    /\ ret' = DictUpdate(ret, flatten_categories(argB, << >>))
    /\ UNCHANGED << pipeline, argA, argB >>

NextFlatten == CallFlatten \/ CallMerge

SpecFlatten == InitFlatten /\ [][NextFlatten]_vars

-----------------------------------------------------------------------------
(* Properties of the pipeline                                              *)

\* the buckets of the dict d that hold s
BucketsOf(d, s) == { i \in 1..Len(d) : s \in Range(d[i].v) }

\* every member of every bucket of d
Members(d) == UNION { Range(d[i].v) : i \in 1..Len(d) }

\* the skills of the run that the Discard Filter does not flag
Kept == { s \in Range(skills) : ~should_discard(s) }

\* the position of the group g of groups in consolidated, when Stage 2 has
\* resolved its representative to a category
CategoryOfGroup(g) == determine_primary_category(groups[g].k)

\* C1 - Total coverage: once the three stages have run on the pairwise
\* distinct skills of the run, every skill that should_discard does not flag
\* is in exactly one bucket of the final map, no bucket lists a skill twice,
\* and the members of all buckets together are exactly those skills.
C1_TotalCoverage ==
    pc \in { "save", "summary", "augment", "done" } =>
        /\ \A s \in Kept : Cardinality(BucketsOf(final_groups, s)) = 1
        /\ \A i \in 1..Len(final_groups) :
              Len(final_groups[i].v) = Cardinality(Range(final_groups[i].v))
        /\ Members(final_groups) = Kept

\* a finished run of three skills that Stage 1 put in one group and Stage 3
\* spread over several buckets
C1_Witness ==
    /\ pc = "done"
    /\ Len(skills) = 3
    /\ Len(groups) = 1
    /\ Len(final_groups) >= 2
    /\ Members(final_groups) = Range(skills)

\* what the run writes when list(skills) comes out in sorted order
ReferenceOutput(data) ==
    filter_and_reclassify_groups(
        consolidate_groups(
            create_initial_groups(
                IF ExtractRaises(data) THEN << >>
                ELSE SortedSet(ExtractedSet(data)))))

\* C2 - Determinism: the map a run writes, the order of its buckets
\* included, is the same for every run on the same input file, whatever
\* order list(set(...)) gave the skills in; so it is the map of the run
\* that got them in sorted order.
C2_Determinism ==
    pc = "done" => output_file = ReferenceOutput(jobs)

\* C8 - End-to-end scenario 1: the run on C#, .NET Core, AWS Lambda,
\* React.js and react ends with C# and .NET Core in the .NET bucket, AWS
\* Lambda in the AWS bucket, and React.js with react in one frontend bucket.
C8_Scenario1 ==
    (pc = "done" /\ jobs = Scenario1) =>
        /\ \E i \in 1..Len(final_groups) :
              /\ final_groups[i].k = Str("PROGRAMMING_.NET")
              /\ Range(final_groups[i].v) = { Str("c#"), Str(".net core") }
        /\ \E i \in 1..Len(final_groups) :
              /\ final_groups[i].k = Str("CLOUD_AWS")
              /\ Range(final_groups[i].v) = { Str("aws lambda") }
        /\ \E i \in 1..Len(final_groups) :
              /\ Prefix(final_groups[i].k, 8) = Str("FRONTEND")
              /\ Range(final_groups[i].v) = { Str("react.js"), Str("react") }

\* C9 - End-to-end scenario 2: should_discard flags "5+ years of experience"
\* and "Bachelor's degree required", and the run on these two ends with an
\* empty map.
C9_Scenario2 ==
    (pc = "done" /\ jobs = Scenario2) =>
        /\ should_discard(clean_skill_name(Str("5+ years of experience")))
        /\ should_discard(clean_skill_name(Str("Bachelor's degree required")))
        /\ final_groups = << >>

\* C5 - Threshold of Stage 2, MIN_GROUP_SIZE = 3: once consolidate_groups
\* has run, the members of every group of 2 are in the bucket keyed by the
\* category of the group's representative, and every group of 3 is a bucket
\* of its own under its representative, with none of its members in the
\* bucket of that category.
C5_Threshold ==
    pc \in { "reclassify", "save", "summary", "augment", "done" } =>
        \A g \in 1..Len(groups) :
            /\ Len(groups[g].v) = 2 =>
                  /\ CategoryOfGroup(g) \in Keys(consolidated)
                  /\ Range(groups[g].v)
                        \subseteq Range(Get(consolidated, CategoryOfGroup(g)))
            /\ Len(groups[g].v) = 3 =>
                  /\ groups[g].k \in Keys(consolidated)
                  /\ Get(consolidated, groups[g].k) = SortedSet(Range(groups[g].v))
                  /\ \A i \in 1..Len(consolidated) :
                        consolidated[i].k = CategoryOfGroup(g) =>
                            Range(consolidated[i].v) \cap Range(groups[g].v) = {}

\* Stage 2 has run on a group of 2 and on a group of 3
C5_Witness ==
    /\ pc = "reclassify"
    /\ \E g \in 1..Len(groups) : Len(groups[g].v) = 2
    /\ \E g \in 1..Len(groups) :
          Len(groups[g].v) = 3 /\ groups[g].k \in Keys(consolidated)

\* the list is in strictly ascending order: sorted, and no str twice
StrictlyAscending(v) == \A i \in 1..(Len(v) - 1) : StrLess(v[i], v[i + 1])

\* C16 - Every bucket of the map consolidate_groups returned and of the map
\* filter_and_reclassify_groups returned is a list in strictly ascending
\* order, and every str in it is one of the strs of the map that was passed
\* in.
C16_SortedOriginals ==
    /\ pc \in { "reclassify", "save", "summary", "augment", "done" } =>
          \A b \in 1..Len(consolidated) :
              /\ StrictlyAscending(consolidated[b].v)
              /\ Range(consolidated[b].v) \subseteq Members(groups)
    /\ pc \in { "save", "summary", "augment", "done" } =>
          \A b \in 1..Len(final_groups) :
              /\ StrictlyAscending(final_groups[b].v)
              /\ Range(final_groups[b].v) \subseteq Members(consolidated)

\* a finished run with a final bucket of two skills that were processed in
\* descending order, the first of them not its own normalized key
C16_Witness ==
    /\ pc = "done"
    /\ \E b \in 1..Len(final_groups) : \E i, j \in 1..Len(skills) :
          /\ i < j
          /\ { skills[i], skills[j] } \subseteq Range(final_groups[b].v)
          /\ StrLess(skills[j], skills[i])
          /\ normalize_skill(skills[i]) # skills[i]

\* the steps of main in the order of its statements: the loop of Stage 1,
\* then Stage 2, then Stage 3, then the three files, each once
StageOrder ==
    << pc, pc' >> \in { << "start", "group" >>, << "start", "consolidate" >>,
                        << "group", "group" >>, << "group", "consolidate" >>,
                        << "consolidate", "reclassify" >>,
                        << "reclassify", "save" >>,
                        << "save", "summary" >>,
                        << "summary", "augment" >>,
                        << "augment", "done" >> }

\* C17 - Termination: every run takes its steps in the order cluster,
\* consolidate, reclassify, each stage once, and eventually finishes with
\* every skill that should_discard does not flag in some bucket of the final
\* map.
C17_Terminates ==
    /\ [][StageOrder]_vars
    /\ <>(pc = "done" /\ Kept \subseteq Members(final_groups))

\* a finished run of several skills, all of them in buckets
C17_Witness ==
    /\ pc = "done"
    /\ idx = Len(skills)
    /\ Cardinality(Kept) >= 2
    /\ Kept \subseteq Members(final_groups)
    /\ output_file = final_groups

-----------------------------------------------------------------------------
(* Properties of the pure functions                                        *)

\* C3 - Idempotence of the Normalizer: normalize_skill applied to what
\* normalize_skill returned gives that same string back.
C3_Idempotent ==
    call = "normalize_skill(normalize_skill)" => ret = normalize_skill(argA)

\* every keyword of every leaf under the items of a dict of the taxonomy
RECURSIVE LeafKeywords(_)
LeafKeywords(items) ==
    UNION { IF items[i].isdict THEN LeafKeywords(items[i].items)
                               ELSE Range(items[i].keywords) :
            i \in 1..Len(items) }

\* the normalized skill holds no keyword of the taxonomy as a whole word
NoKeywordIn(norm_skill) ==
    \A kw \in LeafKeywords(HIERARCHY_TECHNICAL) \cup LeafKeywords(HIERARCHY_NON_TECHNICAL) :
        ~re_search_word(kw, norm_skill)

\* C4 - The Taxonomy Matcher is total with a fallback:
\* determine_primary_category returns a category path of the taxonomy or
\* GENERAL_TECH, never nothing, and it returns GENERAL_TECH whenever the
\* normalized skill holds no keyword of the taxonomy as a whole word.
C4_Fallback ==
    call = "determine_primary_category" =>
        /\ ret # None
        /\ ret \in Keys(ALL_CATEGORIES) \cup { Str("GENERAL_TECH") }
        /\ NoKeywordIn(normalize_skill(argA)) => ret = Str("GENERAL_TECH")

\* a call with a skill of two words, none a keyword, that fell back
C4_Witness ==
    /\ call = "determine_primary_category"
    /\ WordCount(normalize_skill(argA)) = 2
    /\ NoKeywordIn(normalize_skill(argA))
    /\ ret = Str("GENERAL_TECH")

\* the two normalized keys of the call
KeyA == normalize_skill(argA)

KeyB == normalize_skill(argB)

\* C6 - Similarity boundary, short keys: two normalized keys of at most 6
\* characters with the same first 4 characters are grouped.
C6_ShortPrefix ==
    ( /\ call = "should_group_together"
      /\ Len(KeyA) <= 6 /\ Len(KeyB) <= 6
      /\ Prefix(KeyA, 4) = Prefix(KeyB, 4) ) => ret = TRUE

\* C7 - Similarity boundary, long keys: two different normalized keys of
\* more than 6 characters with the same first 4 characters, neither holding
\* the other on word boundaries, and of similarity ratio below 0.8 are not
\* grouped.
C7_LongPrefix ==
    ( /\ call = "should_group_together"
      /\ Len(KeyA) > 6 /\ Len(KeyB) > 6
      /\ Prefix(KeyA, 4) = Prefix(KeyB, 4)
      /\ KeyA # KeyB
      /\ ~re_search_word(KeyA, KeyB) /\ ~re_search_word(KeyB, KeyA)
      /\ ~RatioAtLeastThreshold(KeyA, KeyB) ) => ret = FALSE

\* a call with two such keys that returned false
C7_Witness ==
    /\ call = "should_group_together"
    /\ Len(KeyA) > 6 /\ Len(KeyB) > 6
    /\ Prefix(KeyA, 4) = Prefix(KeyB, 4)
    /\ KeyA # KeyB
    /\ ~re_search_word(KeyA, KeyB) /\ ~re_search_word(KeyB, KeyA)
    /\ ~RatioAtLeastThreshold(KeyA, KeyB)
    /\ ret = FALSE

\* C10 - should_group_together returns false whenever the normalized key of
\* one of its arguments is empty.
C10_EmptyKey ==
    (call = "should_group_together" /\ (KeyA = << >> \/ KeyB = << >>))
        => ret = FALSE

\* the keywords of the categories of cats whose path starts with prefix
KeywordsUnder(cats, prefix) ==
    UNION { Range(cats[i].v) :
              i \in { j \in 1..Len(cats) : MatchAt(cats[j].k, 0, Str(prefix)) } }

\* norm_skill holds one of the keywords kws as a whole word
HoldsKeyword(kws, norm_skill) == \E kw \in kws : re_search_word(kw, norm_skill)

\* C11 - Matcher priority: a skill whose normalized key holds a keyword of
\* a PROGRAMMING category and a keyword of an ML_AI or SECURITY category, each
\* as a whole word, is given the ML_AI or SECURITY category.
C11_SpecificFirst ==
    ( /\ call = "determine_primary_category"
      /\ HoldsKeyword(KeywordsUnder(MAIN_CATEGORIES, "PROGRAMMING_"), KeyA)
      /\ HoldsKeyword(KeywordsUnder(MAIN_CATEGORIES, "ML_AI_")
                        \cup KeywordsUnder(MAIN_CATEGORIES, "SECURITY_"), KeyA) )
    => ( MatchAt(ret, 0, Str("ML_AI_")) \/ MatchAt(ret, 0, Str("SECURITY_")) )

\* the keywords of the technical categories other than the soft skills
OtherTechnicalKeywords ==
    UNION { Range(MAIN_CATEGORIES[i].v) :
              i \in { j \in 1..Len(MAIN_CATEGORIES) :
                        MAIN_CATEGORIES[j].k # Str("GENERAL_TECH_SOFT_SKILLS") } }

\* C12 - Branch order of the matcher: a skill whose normalized key holds a
\* NON_TECHNICAL keyword and a GENERAL_TECH_SOFT_SKILLS keyword and no other
\* technical keyword is given the non-technical category.
C12_NonTechnicalBeforeSoft ==
    ( /\ call = "determine_primary_category"
      /\ HoldsKeyword(KeywordsUnder(NON_TECH_CATEGORIES, ""), KeyA)
      /\ HoldsKeyword(KeywordsUnder(MAIN_CATEGORIES, "GENERAL_TECH_SOFT_SKILLS"), KeyA)
      /\ ~HoldsKeyword(OtherTechnicalKeywords, KeyA) )
    => ret \in Keys(NON_TECH_CATEGORIES)

\* the cleaned names of the well-formed entries of the file (a dict with a
\* non-empty str as 'Name') that should_discard does not flag
WellFormedKept(data) ==
    UNION { { clean_skill_name(EntryName(JobArray(data[j], key)[i])) :
                i \in { e \in 1..Len(JobArray(data[j], key)) :
                          LET skill == JobArray(data[j], key)[e]
                          IN  /\ ~EntryRaises(skill)
                              /\ Truthy(EntryName(skill))
                              /\ clean_skill_name(EntryName(skill)) # << >>
                              /\ ~should_discard(clean_skill_name(EntryName(skill))) } } :
            << j, key >> \in (1..Len(data)) \X SKILL_ARRAYS }

\* C13 - Malformed skill entries do not abort extraction: what
\* extract_all_skill_names_from_jobs returns holds the cleaned name of every
\* well-formed, non-discarded entry of every job, whatever malformed entries
\* the file has besides.
C13_MalformedSkipped ==
    pc # "start" => Range(skills) = WellFormedKept(jobs)

-----------------------------------------------------------------------------
(* Properties of the rollup                                                *)

\* the entries of the rolled-up array of a job that count: those with a
\* name whose cleaned form is not empty and not discarded
Counted(job) ==
    { i \in 1..Len(JobArray(job, "KeySkillsRequired")) :
        LET name == EntryName(JobArray(job, "KeySkillsRequired")[i])
        IN  /\ Truthy(name)
            /\ clean_skill_name(name) # << >>
            /\ ~should_discard(clean_skill_name(name)) }

\* the category the final map gives the i-th entry of the array
CategoryOfEntry(job, i) ==
    LET cleaned == clean_skill_name(EntryName(JobArray(job, "KeySkillsRequired")[i]))
    IN  IF \E b \in 1..Len(final_groups) : cleaned \in Range(final_groups[b].v)
        THEN final_groups[CHOOSE b \in 1..Len(final_groups) :
                            cleaned \in Range(final_groups[b].v)].k
        ELSE UNCATEGORIZED

\* the sum of the relevances of the entries numbered in S
RECURSIVE SumOfRelevance(_, _)
SumOfRelevance(job, S) ==
    IF S = {} THEN 0
    ELSE LET i == CHOOSE x \in S : TRUE
         IN  RelevanceOf(JobArray(job, "KeySkillsRequired")[i])
               + SumOfRelevance(job, S \ { i })

\* the sum of the relevances of the counted entries of a job that the final
\* map gives the category
SumFor(job, category) ==
    SumOfRelevance(job, { i \in Counted(job) : CategoryOfEntry(job, i) = category })

\* the 'Skills' list of the j-th job of the augmented file
SkillsOf(j) == augmented_file.jobs[j].Skills

\* the 'Skills' list of every job has one item for each category that a
\* counted entry of the job maps to, and no other item
OneItemPerCategory ==
    \A j \in 1..Len(jobs) :
        /\ { SkillsOf(j)[k].category : k \in 1..Len(SkillsOf(j)) }
             = { CategoryOfEntry(jobs[j], i) : i \in Counted(jobs[j]) }
        /\ \A k, l \in 1..Len(SkillsOf(j)) :
              SkillsOf(j)[k].category = SkillsOf(j)[l].category => k = l

\* C14 as stated - Rollup aggregation: the relevance of a category in a
\* job's 'Skills' is the sum of the relevances of the job's counted entries
\* of that category, each category is listed once, and an entry whose skill
\* is not in the final map counts under UNCATEGORIZED.
C14_ExactSum ==
    (pc = "done" /\ augmented_file.written) =>
        /\ OneItemPerCategory
        /\ \A j \in 1..Len(jobs) : \A k \in 1..Len(SkillsOf(j)) :
              SkillsOf(j)[k].relevance = SumFor(jobs[j], SkillsOf(j)[k].category)

\* C14 as amended - Rollup aggregation: the relevance of a category in a
\* job's 'Skills' is the sum of the relevances of the job's counted entries
\* of that category rounded to 2 decimal places, each category is listed
\* once, and an entry whose skill is not in the final map counts under
\* UNCATEGORIZED.
C14_RoundedSum ==
    (pc = "done" /\ augmented_file.written) =>
        /\ OneItemPerCategory
        /\ \A j \in 1..Len(jobs) : \A k \in 1..Len(SkillsOf(j)) :
              SkillsOf(j)[k].relevance
                 = Round2(SumFor(jobs[j], SkillsOf(j)[k].category))

\* a written rollup in which two entries of a job gave one category a sum
\* that rounding changes
C14_Witness ==
    /\ pc = "done"
    /\ augmented_file.written
    /\ \E j \in 1..Len(jobs) : \E k \in 1..Len(SkillsOf(j)) :
          LET category == SkillsOf(j)[k].category
          IN  /\ Cardinality({ i \in Counted(jobs[j]) :
                                 CategoryOfEntry(jobs[j], i) = category }) = 2
              /\ SkillsOf(j)[k].relevance # SumFor(jobs[j], category)
              /\ SkillsOf(j)[k].relevance > 50000

\* C15 - Rollup ordering: in the 'Skills' list of every job no item has a
\* smaller relevance than the item after it.
C15_Descending ==
    (pc = "done" /\ augmented_file.written) =>
        \A j \in 1..Len(jobs) : \A k \in 1..(Len(SkillsOf(j)) - 1) :
            SkillsOf(j)[k].relevance >= SkillsOf(j)[k + 1].relevance

\* a written rollup whose first item is not the category of the job's first
\* entry: sorting moved a category with more relevance to the front
C15_Witness ==
    /\ pc = "done"
    /\ augmented_file.written
    /\ \E j \in 1..Len(jobs) :
          /\ Len(SkillsOf(j)) >= 2
          /\ 1 \in Counted(jobs[j])
          /\ SkillsOf(j)[1].category # CategoryOfEntry(jobs[j], 1)
          /\ SkillsOf(j)[1].relevance > SkillsOf(j)[2].relevance

-----------------------------------------------------------------------------
(* Properties of clean_skill_name                                          *)

\* s.startswith(p)
StartsWith(s, p) == MatchAt(s, 0, p)

\* s ends with one of . , ; :
EndsWithPunctuation(s) == s # << >> /\ s[Len(s)] \in { ".", ",", ";", ":" }

\* C18 - What clean_skill_name returns does not start with any of the
\* boilerplate phrases and does not end with a punctuation character, also
\* when the punctuation was repeated or stood before a removed parenthetical.
C18_Stripped ==
    call = "clean_skill_name" =>
        /\ \A b \in 1..Len(BoilerplatePrefixes) :
              ~StartsWith(ret, Str(BoilerplatePrefixes[b]))
        /\ ~EndsWithPunctuation(ret)

-----------------------------------------------------------------------------
(* Properties of Stage 1                                                   *)

\* C19 - Stage 1 processes the skills of a run longest first: no skill is
\* processed before a strictly longer one.
C19_LongestFirst ==
    \A i, j \in 1..idx : i < j => Len(skills[i]) >= Len(skills[j])

\* the groups, in creation order, whose representative the skill should be
\* grouped with
Fitting(skill) ==
    { g \in 1..Len(groups) : should_group_together(skill, groups[g].k) }

\* C20 - Stage 1 is first-fit: a processed skill is appended to the
\* earliest-created group among those whose representative it should be
\* grouped with, and to no other; when there is none, a group of the skill
\* alone, with the skill as representative, is added after the others.
C20_FirstFit ==
    [][ idx' # idx =>
          LET skill == skills[idx']
          IN  IF Fitting(skill) = {}
              THEN groups' = Append(groups, [ k |-> skill, v |-> << skill >> ])
              ELSE /\ Len(groups') = Len(groups)
                   /\ \A g \in 1..Len(groups) :
                         /\ groups'[g].k = groups[g].k
                         /\ groups'[g].v =
                               IF g \in Fitting(skill)
                                  /\ \A h \in Fitting(skill) : g <= h
                               THEN Append(groups[g].v, skill)
                               ELSE groups[g].v ]_vars

\* a processed skill that should be grouped with the representatives of two
\* groups created before it, and is a member of the earlier one only; and a
\* group of one skill that is not the first group
C20_Witness ==
    /\ \E i \in 1..idx : \E g, h \in 1..Len(groups) :
          /\ g < h
          /\ \E a, b \in 1..(i - 1) :
                skills[a] = groups[g].k /\ skills[b] = groups[h].k
          /\ should_group_together(skills[i], groups[g].k)
          /\ should_group_together(skills[i], groups[h].k)
          /\ skills[i] \in Range(groups[g].v)
          /\ skills[i] \notin Range(groups[h].v)
    /\ \E g \in 2..Len(groups) : groups[g].v = << groups[g].k >>

\* the list xs is the list ys or the beginning of it
IsPrefix(xs, ys) == Len(xs) <= Len(ys) /\ xs = SubSeq(ys, 1, Len(xs))

\* C21 - During Stage 1, on pairwise distinct skills, every processed skill
\* is a member of exactly one group and is listed there once, the first
\* member of every group is its representative, and a step never removes or
\* moves a member nor changes a representative: the groups only grow.
C21_GroupsOnlyGrow ==
    /\ [](pc = "group" =>
            /\ \A i \in 1..idx :
                  Cardinality({ << g, m >> \in (1..Len(groups)) \X (1..idx) :
                                  /\ m <= Len(groups[g].v)
                                  /\ groups[g].v[m] = skills[i] }) = 1
            /\ Members(groups) = { skills[i] : i \in 1..idx }
            /\ \A g \in 1..Len(groups) :
                  groups[g].v # << >> /\ groups[g].v[1] = groups[g].k)
    /\ [][ pc = "group" =>
              /\ Len(groups) <= Len(groups')
              /\ \A g \in 1..Len(groups) :
                    /\ groups'[g].k = groups[g].k
                    /\ IsPrefix(groups[g].v, groups'[g].v) ]_vars

\* Stage 1 has processed three skills into two groups, one of them of two
\* members, and has a skill left to process
C21_Witness ==
    /\ pc = "group"
    /\ idx >= 3
    /\ idx < Len(skills)
    /\ Len(groups) = 2
    /\ \E g \in 1..Len(groups) : Len(groups[g].v) = 2

-----------------------------------------------------------------------------
(* Properties of Stage 2 and Stage 3 called on their own                   *)

\* the keys of the dict d under which s is listed
KeysOf(d, s) == { d[i].k : i \in BucketsOf(d, s) }

\* C22 - filter_and_reclassify_groups returns no member that should_discard
\* flags, and holds every other member in the bucket whose key is
\* determine_primary_category of that member, and in no other, whatever the
\* key of the bucket it came from.
C22_Reclassified ==
    call = "filter_and_reclassify_groups" =>
        /\ Members(final_groups) = { s \in Members(groups) : ~should_discard(s) }
        /\ \A s \in Members(final_groups) :
              KeysOf(final_groups, s) = { determine_primary_category(s) }

\* Stage 3 has dropped a member, and has moved another one out of a bucket
\* whose key is a category path, but not the member's
C22_Witness ==
    /\ call = "filter_and_reclassify_groups"
    /\ \E s \in Members(groups) : should_discard(s)
    /\ \E s \in Members(final_groups) : \E i \in BucketsOf(groups, s) :
          /\ groups[i].k \in Keys(ALL_CATEGORIES)
          /\ groups[i].k # determine_primary_category(s)

\* C28 - consolidate_groups loses no member: the members of the buckets it
\* returns are the members of the groups it was passed, also when the
\* representative of a group of MIN_GROUP_SIZE members is the category of a
\* smaller group; and it leaves the lists of the dict it was passed as they
\* were.
C28_NoMemberLost ==
    call = "consolidate_groups" =>
        /\ Members(consolidated) = Members(argA)
        /\ groups = argA

\* C29 - Stage 3 is idempotent: filter_and_reclassify_groups applied to
\* what filter_and_reclassify_groups returned gives the same mapping from
\* category to sorted list.
C29_Idempotent ==
    call = "filter_and_reclassify_groups(filter_and_reclassify_groups)" =>
        AsMapping(ret) = AsMapping(final_groups)

\* Stage 3 was applied twice to a map that its first application changed
\* into a map of several buckets
C29_Witness ==
    /\ call = "filter_and_reclassify_groups(filter_and_reclassify_groups)"
    /\ AsMapping(final_groups) # AsMapping(argA)
    /\ Len(final_groups) >= 2
    /\ ret = final_groups

-----------------------------------------------------------------------------
(* More properties of should_group_together                                *)

\* C23 - The similarity-ratio rule is length-gated: two different
\* normalized keys of at most 6 characters, with different first 4
\* characters and neither holding the other on word boundaries, are not
\* grouped.
C23_RatioGated ==
    ( /\ call = "should_group_together"
      /\ Len(KeyA) <= 6 /\ Len(KeyB) <= 6
      /\ KeyA # KeyB
      /\ Prefix(KeyA, 4) # Prefix(KeyB, 4)
      /\ ~re_search_word(KeyA, KeyB) /\ ~re_search_word(KeyB, KeyA) ) => ret = FALSE

\* the groups as sets of members, whatever their order and representatives
GroupSets(grps) == { Range(grps[g].v) : g \in 1..Len(grps) }

\* a, b, c with should_group_together(a, b) and should_group_together(b, c)
\* but not should_group_together(a, c)
Intransitive(a, b, c) ==
    /\ should_group_together(a, b)
    /\ should_group_together(b, c)
    /\ ~should_group_together(a, c)

\* C24 - should_group_together is not transitive, and Stage 1 depends on
\* the processing order: among the skills of the input file with React,
\* React Native and ReactJS there are a, b, c with (a, b) and (b, c) grouped
\* together and (a, c) not, and whatever the order Stage 1 processed them in,
\* there is another order in which it forms other groups.
C24_NotTransitive ==
    (pc = "consolidate" /\ jobs = ThresholdFile) =>
        /\ \E a, b, c \in Range(skills) : Intransitive(a, b, c)
        /\ \E q \in Orderings(Range(skills)) :
              GroupSets(create_initial_groups(q)) # GroupSets(groups)

\* Stage 1 has finished on skills that hold such a, b, c, and has formed
\* other groups than it forms on the same skills in another order
C24_Witness ==
    /\ pc = "consolidate"
    /\ \E i, j, k \in 1..Len(skills) : Intransitive(skills[i], skills[j], skills[k])
    /\ \E q \in Orderings(Range(skills)) :
          GroupSets(create_initial_groups(q)) # GroupSets(groups)

-----------------------------------------------------------------------------
(* Properties of flatten_categories                                        *)

\* the leaves of a taxonomy, each with the names of its ancestors and its
\* own joined with "_" and its keyword list
RECURSIVE LeafPaths(_, _)
LeafPaths(hierarchy, prefix) ==
    UNION { IF hierarchy[i].isdict
            THEN LeafPaths(hierarchy[i].items, prefix \o hierarchy[i].cat \o Str("_"))
            ELSE { << prefix \o hierarchy[i].cat, hierarchy[i].keywords >> } :
            i \in 1..Len(hierarchy) }

\* the number of keyword lists of a taxonomy
RECURSIVE LeafCount(_)
LeafCount(hierarchy) ==
    IF hierarchy = << >> THEN 0
    ELSE ( IF hierarchy[1].isdict THEN LeafCount(hierarchy[1].items) ELSE 1 )
         + LeafCount(Tail(hierarchy))

\* C25 - flatten_categories returns one item per keyword list of the
\* taxonomy, under the names of its ancestors and its own joined with "_":
\* as many items as the taxonomy has keyword lists, none lost or overwritten,
\* also when the two flattened dicts are merged into ALL_CATEGORIES.
C25_OnePerLeaf ==
    /\ call = "flatten_categories" =>
          /\ Len(ret) = LeafCount(argA)
          /\ AsMapping(ret) = LeafPaths(argA, << >>)
    /\ call = "ALL_CATEGORIES" =>
          /\ Len(ret) = LeafCount(argA) + LeafCount(argB)
          /\ AsMapping(ret) = LeafPaths(argA, << >>) \cup LeafPaths(argB, << >>)

-----------------------------------------------------------------------------
(* More properties of the pipeline                                         *)

\* the skills determine_primary_category puts under each category, taken one
\* by one: a mapping from category to sorted list
ByOwnCategory(S) ==
    LET pairs == { << s, determine_primary_category(s) >> : s \in S }
    IN  { << c, SortedSet({ p[1] : p \in { x \in pairs : x[2] = c } }) >> :
            c \in { p[2] : p \in pairs } }

\* C26 - The final map, as a mapping from category to list, depends only on
\* the set of the skills: whatever order they were processed in, it holds
\* each skill that should_discard does not flag under
\* determine_primary_category of that skill alone, whatever groups Stage 1
\* formed and whatever Stage 2 folded.
C26_OrderIndependent ==
    pc \in { "save", "summary", "augment", "done" } =>
        AsMapping(final_groups) = ByOwnCategory(Kept)

\* a finished run of skills that Stage 1 groups otherwise in another order,
\* with a group whose members ended in different buckets
C26_Witness ==
    /\ pc = "done"
    /\ \E q \in Orderings(Range(skills)) :
          GroupSets(create_initial_groups(q)) # GroupSets(groups)
    /\ \E g \in 1..Len(groups) : \E s, u \in Range(groups[g].v) :
          determine_primary_category(s) # determine_primary_category(u)

\* the values determine_primary_category can return
CategoryValues == Keys(ALL_CATEGORIES) \cup { Str("GENERAL_TECH") }

\* the buckets Stage 2 stored under the name of a representative
KeptWhole == { b \in 1..Len(consolidated) : consolidated[b].k \in Keys(groups) }

\* C27 - After Stage 3 every key of the final map is a value of
\* determine_primary_category, a flattened taxonomy path or 'GENERAL_TECH':
\* a bucket that Stage 2 stored under the name of its representative is not
\* in the final map, and its members are in buckets of the final map.
C27_NoRepresentativeKey ==
    pc \in { "save", "summary", "augment", "done" } =>
        /\ Keys(final_groups) \subseteq CategoryValues
        /\ \A b \in KeptWhole :
              /\ consolidated[b].k \notin Keys(final_groups)
              /\ Range(consolidated[b].v) \subseteq Members(final_groups)

\* a finished run in which Stage 2 stored a group of MIN_GROUP_SIZE members
\* under the name of its representative
C27_Witness ==
    /\ pc = "done"
    /\ \E b \in KeptWhole : Len(consolidated[b].v) >= MIN_GROUP_SIZE

\* C30 - In a full run the rollup finds every counted skill of every job in
\* the final map: no 'Skills' list holds the category 'UNCATEGORIZED'.
C30_NoUncategorized ==
    (pc = "done" /\ augmented_file.written) =>
        \A j \in 1..Len(jobs) : \A k \in 1..Len(SkillsOf(j)) :
            SkillsOf(j)[k].category # UNCATEGORIZED

=============================================================================
